---- MODULE Spec2Model ----
(***************************************************************************)
(* A model of torch/_dynamo/variables/dicts.py: the symbolic mapping       *)
(* variables of the tracer (ConstDictVariable, DefaultDictVariable,        *)
(* DataClassVariable, CustomizedDictVariable, PythonSysModulesVariable).   *)
(*                                                                         *)
(* A variable is a record.  The leaf variables the tracer passes as keys,  *)
(* values and defaults are the constant table Leaves (references           *)
(* 1..NLeaf); the mapping variables live in the sequence heap (references  *)
(* NLeaf+1 ..), which only grows: clone() appends.  items is an ordered    *)
(* sequence of [k, v] entries (an OrderedDict), k a normalized key and v a *)
(* reference.  mutable_local = 0 is None.                                  *)
(***************************************************************************)
EXTENDS Integers, Sequences, FiniteSets, TLC

VARIABLES heap, live, weak, last

vars == <<heap, live, weak, last>>

\* The number of variables one trace may create on top of the wrapped ones.
MaxVars == 2

(***************************************************************************)
(* Variables                                                               *)
(***************************************************************************)
Blank ==
  [cls |-> "VariableTracker", value |-> "", const |-> FALSE,
   specialized_value |-> "", module_key |-> "", items |-> <<>>,
   user_cls |-> "", mutable_local |-> 0, recursively_contains |-> {},
   guards |-> {}, default_factory |-> 0, fn |-> ""]

ConstantVar(value, guards) ==
  [Blank EXCEPT !.cls = "ConstantVariable", !.value = value, !.const = TRUE,
                !.guards = guards]

\* The leaf variables of a trace: what the tracer passes as key, value,
\* default or factory.  const says whether as_python_constant() returns
\* (then value is what it returns).
Leaves ==
  << ConstantVar("x", {"gkx"}),                                       \* 1
     ConstantVar("z", {}),                                            \* 2
     [Blank EXCEPT !.cls = "TensorVariable", !.specialized_value = "T1",
                   !.guards = {"gt"}],                                \* 3
     [Blank EXCEPT !.cls = "TensorVariable"],                         \* 4
     [Blank EXCEPT !.cls = "NNModuleVariable", !.module_key = "mod"], \* 5
     ConstantVar("float32", {}),                                      \* 6
     [Blank EXCEPT !.cls = "UserDefinedObjectVariable",
                   !.guards = {"go"}],                                \* 7
     ConstantVar("1", {"g1"}),                                        \* 8
     ConstantVar("2", {}),                                            \* 9
     ConstantVar("3", {"g3"}),                                        \* 10
     ConstantVar("4", {}),                                            \* 11
     ConstantVar("7", {"g7"}),                                        \* 12
     [Blank EXCEPT !.cls = "ListVariable", !.mutable_local = 4,
                   !.recursively_contains = {5}, !.guards = {"gl"}],  \* 13
     [Blank EXCEPT !.cls = "BuiltinVariable", !.fn = "list",
                   !.const = TRUE, !.value = "list",
                   !.guards = {"gf"}],                                \* 14
     [Blank EXCEPT !.cls = "TupleVariable", !.const = TRUE,
                   !.value = "tup", !.guards = {"gtup"}],             \* 15
     [Blank EXCEPT !.cls = "PythonSysModulesVariable",
                   !.guards = {"gsys"}],                              \* 16
     [Blank EXCEPT !.cls = "TensorVariable", !.guards = {"gv"}],      \* 17
     ConstantVar("alpha", {"gka"}),                                   \* 18
     ConstantVar("beta", {}),                                         \* 19
     ConstantVar("a", {}),                                            \* 20
     ConstantVar("b", {}),                                            \* 21
     ConstantVar("c", {}),                                            \* 22
     ConstantVar("None", {"gn"}),                                     \* 23
     ConstantVar("5", {}),                                            \* 24
     [Blank EXCEPT !.cls = "ConstDictVariable", !.user_cls = "dict",
                   !.items = << [k |-> "z", v |-> 13] >>,
                   !.mutable_local = 6, !.recursively_contains = {4, 5},
                   !.guards = {"gd5", "gl"}],                         \* 25
     ConstantVar("None", {})                                          \* 26
  >>

\* The number of leaves, Len(Leaves); Init requires the two to agree.
NLeaf == 26

\* The variable a reference denotes, in heap h.
Var(h, r) == IF r <= NLeaf THEN Leaves[r] ELSE h[r - NLeaf]

\* The reference of the i-th heap entry, and of the next one clone() makes.
Ref(i) == NLeaf + i
NewRef(h) == NLeaf + Len(h) + 1

\* A fresh MutableLocal(): an identity no other variable holds.
MutableLocal(h) == 10 + Len(h)

\* The variable classes that are ConstDictVariable or a subclass of it.
DictClasses ==
  {"ConstDictVariable", "DefaultDictVariable", "DataClassVariable",
   "CustomizedDictVariable"}

\* tx.output.nn_modules
nn_modules == [m \in {"mod"} |-> "M1"]

\* type(k) of a Python value: a normalized key, a constant, a default.
PyType(k) ==
  CASE k = "T1" -> "Tensor"
    [] k = "M1" -> "Module"
    [] k = "tup" -> "tuple"
    [] k = "float32" -> "dtype"
    [] k = "dict" -> "dict"
    [] k = "list" -> "type"
    [] k = "[]" -> "list"
    [] k = "None" -> "NoneType"
    [] k = "MISSING" -> "_MISSING_TYPE"
    [] k \in {"1", "2", "3", "4", "5", "7"} -> "int"
    [] OTHER -> "str"

(***************************************************************************)
(* OrderedDict                                                             *)
(***************************************************************************)
\* hash(k) returns: a dict or a list as the key of a lookup or a store
\* raises TypeError (unhashable type).
Hashable(k) == PyType(k) \notin {"dict", "list"}

\* k in items, for a key that hashes.
HasKey(items, k) == \E i \in DOMAIN items : items[i].k = k

GetItem(items, k) == items[CHOOSE i \in DOMAIN items : items[i].k = k].v

\* newval[k] = v: an existing key keeps its place, a new one goes last.
SetItem(items, k, v) ==
  IF HasKey(items, k)
  THEN [i \in DOMAIN items |->
          IF items[i].k = k THEN [k |-> k, v |-> v] ELSE items[i]]
  ELSE Append(items, [k |-> k, v |-> v])

\* newval.pop(k)
PopItem(items, k) == SelectSeq(items, LAMBDA e : e.k # k)

\* newval.update(other)
RECURSIVE UpdateItems(_, _)
UpdateItems(items, other) ==
  IF other = <<>> THEN items
  ELSE UpdateItems(SetItem(items, Head(other).k, Head(other).v), Tail(other))

Keys(items) == [i \in DOMAIN items |-> items[i].k]
Values(items) == [i \in DOMAIN items |-> items[i].v]

(***************************************************************************)
(* Constants and keys                                                      *)
(***************************************************************************)
Range(s) == {s[i] : i \in DOMAIN s}

\* ConstDictVariable.as_python_constant for a mapping variable v (a dict
\* of the items' constants, when each of them has one); the variable's own
\* constant otherwise.  ok = FALSE is NotImplementedError.
RECURSIVE as_python_constant(_, _)
AsConstant(h, v) ==
  IF v.cls \in DictClasses
  THEN IF \A i \in DOMAIN v.items : as_python_constant(h, v.items[i].v).ok
       THEN [ok |-> TRUE, value |-> "dict"]
       ELSE [ok |-> FALSE, value |-> ""]
  ELSE [ok |-> v.const, value |-> IF v.const THEN v.value ELSE ""]

as_python_constant(h, r) == AsConstant(h, Var(h, r))

\* VariableTracker.is_python_constant: whether as_python_constant returns.
base_is_python_constant(h, r) == as_python_constant(h, r).ok

\* `self.default_factory in [list, tuple, dict]`: the field holds None or a
\* VariableTracker (it is .call_function()ed on a miss), and neither equals
\* one of the three built-in types.
FactoryInTypeList(df) == FALSE

\* DefaultDictVariable.is_python_constant
DefaultDict_is_python_constant(h, r) ==
  IF ~FactoryInTypeList(Var(h, r).default_factory) /\ Var(h, r).items = <<>>
  THEN FALSE
  ELSE base_is_python_constant(h, r)

is_python_constant(h, r) ==
  IF Var(h, r).cls = "DefaultDictVariable"
  THEN DefaultDict_is_python_constant(h, r)
  ELSE base_is_python_constant(h, r)

\* The result of get_key: the key, or the exception raised.
Key(k) == [ok |-> TRUE, key |-> k, exc |-> ""]
NoKey(exc) == [ok |-> FALSE, key |-> "", exc |-> exc]

GetKeyOf(v, c) ==
  IF v.cls = "TensorVariable" /\ v.specialized_value # ""
  THEN Key(v.specialized_value)
  ELSE IF v.cls = "NNModuleVariable"
  THEN Key(nn_modules[v.module_key])
  ELSE IF c.ok THEN Key(c.value) ELSE NoKey("NotImplementedError")

\* ConstDictVariable.get_key(tx, arg)
get_key(h, arg) == GetKeyOf(Var(h, arg), as_python_constant(h, arg))

\* A call ConstDictVariable.get_key(*argv) of the classmethod
\* get_key(cls, tx, arg): it takes two arguments, the tracer and the key
\* variable, and a call with another number of them is a TypeError.
CallGetKey(h, argv) ==
  IF Len(argv) # 2 THEN NoKey("TypeError") ELSE get_key(h, argv[2])

\* The tracer as an argument.
tx == "tx"

\* ConstDictVariable.is_valid_key(key)
is_valid_key(h, key) ==
  \/ is_python_constant(h, key)
  \/ (/\ Var(h, key).cls = "TensorVariable"
      /\ Var(h, key).specialized_value # "")
  \/ (/\ Var(h, key).cls = "ConstantVariable"
      /\ PyType(Var(h, key).value) = "dtype")
  \/ Var(h, key).cls = "NNModuleVariable"

is_valid_global_ref_key(key) ==
  IF PyType(key) = "Tensor" THEN TRUE
  ELSE PyType(key) = "Module" \/ PyType(key) = "tuple"

\* utils.global_key_name(key): a name derived from the key's identity.
global_key_name(key) == "__dict_key_" \o key

(***************************************************************************)
(* Guards, options, clones                                                 *)
(***************************************************************************)
\* VariableTracker.propagate(...)["guards"]: the union of the guards of
\* the variables given.
Propagate(h, refs) == UNION {Var(h, r).guards : r \in Range(refs)}

\* A variable as a call returns it.  cls is its class, src the variable it
\* is or is a clone of (0: made by the call, and no mapping), value and n
\* the constant of a ConstantVariable (a string or a number).
NoRet == [cls |-> "", src |-> 0, guards |-> {}, value |-> "", n |-> 0]

Ret(h, r) ==
  [cls |-> Var(h, r).cls, src |-> r, guards |-> Var(h, r).guards,
   value |-> "", n |-> 0]

\* var.add_options(options): a clone of var with the options' guards added.
add_options(h, r, options) ==
  [cls |-> Var(h, r).cls, src |-> r, guards |-> Var(h, r).guards \cup options,
   value |-> "", n |-> 0]

\* cls(..., **options) for a class that is no mapping, with its constant.
Fresh(cls, options, value, n) ==
  [cls |-> cls, src |-> 0, guards |-> options, value |-> value, n |-> n]

\* VariableTracker.__post_init__ when recursively_contains is None: the
\* mutable identities reachable through the items.
AggregateMutables(h, items) ==
  UNION {Var(h, items[i].v).recursively_contains
           \cup (IF Var(h, items[i].v).mutable_local # 0
                 THEN {Var(h, items[i].v).mutable_local} ELSE {})
         : i \in DOMAIN items}

\* ConstDictVariable.__init__: the guards of the item values are added.
ItemGuards(h, items) == Propagate(h, Values(items))

\* ConstDictVariable.modifed(items, recursively_contains, **options): a
\* clone of self with other items.  rc = <<>> stands for None.
modifed(h, self, items, rc, options) ==
  [Var(h, self) EXCEPT
     !.items = items,
     !.recursively_contains =
        IF rc = <<>> THEN AggregateMutables(h, items) ELSE rc[1],
     !.guards = options \cup ItemGuards(h, items)]

(***************************************************************************)
(* The tracer: st = [heap, live, weak] is its state during one call, and   *)
(* a call ends in an effect: the state it leaves, how it ended (outcome    *)
(* "return" or the exception), what it returned (ret, and out for the      *)
(* elements of a returned sequence), and what it did on the way (replaced: *)
(* calls of replace_all; newvar: the mapping variable made; factory: calls *)
(* of the default factory).                                                *)
(***************************************************************************)
Raise(st, exc) ==
  [heap |-> st.heap, live |-> st.live, weak |-> st.weak, outcome |-> exc,
   ret |-> NoRet, out |-> <<>>, replaced |-> 0, newvar |-> 0, factory |-> 0]

Return(st, ret, out) ==
  [heap |-> st.heap, live |-> st.live, weak |-> st.weak, outcome |-> "return",
   ret |-> ret, out |-> out, replaced |-> 0, newvar |-> 0, factory |-> 0]

\* exc.unimplemented(msg)
unimplemented(st) == Raise(st, "Unsupported")

\* tx.replace_all(oldvar, newvar): every reference to oldvar in the live
\* state of the tracer becomes one to newvar.
replace_all(lv, old, new) ==
  [a \in DOMAIN lv |-> IF lv[a] = old THEN new ELSE lv[a]]

\* tx.store_global_weakref(name, value)
store_global_weakref(wk, name) == wk \cup {name}

\* tx.store_dict_key(name, value)
store_dict_key(wk, name) == wk \cup {name}

\* A variant of ReturnReplaced that stores the new items in the receiver
\* itself instead of making a variable: what copy-on-write rules out.
ReturnReplacedInPlace(st, self, nv, ret, calls) ==
  [heap |-> [st.heap EXCEPT ![self - NLeaf] = nv],
   live |-> st.live, weak |-> st.weak, outcome |-> "return", ret |-> ret,
   out |-> <<>>, replaced |-> 1, newvar |-> self, factory |-> calls]

\* A call that makes the variable nv, calls tx.replace_all(self, nv) and
\* returns ret; calls is the number of calls of the default factory.
ReturnReplaced(st, self, nv, ret, calls) ==
  [heap |-> Append(st.heap, nv),
   live |-> replace_all(st.live, self, NewRef(st.heap)),
   weak |-> st.weak, outcome |-> "return", ret |-> ret, out |-> <<>>,
   replaced |-> 1, newvar |-> NewRef(st.heap), factory |-> calls]

\* The new variable nv as the call returns it.
RetNew(st, nv) ==
  [cls |-> nv.cls, src |-> NewRef(st.heap), guards |-> nv.guards,
   value |-> "", n |-> 0]

\* VariableTracker.call_method for the names used here: unimplemented.
base_call_method(st, self, name, args) == unimplemented(st)

\* ConstantVariable.is_literal(key)
is_literal(key) == PyType(key) \in {"str", "int", "NoneType"} \/ key = "[]"

\* ConstDictVariable._key_to_var(tx, key, **options) returns the key as a
\* variable again; for a key that is no global reference it asserts that
\* the key is a literal.
key_to_var_ok(key) == is_valid_global_ref_key(key) \/ is_literal(key)

KeyVarsOk(items) == \A i \in DOMAIN items : key_to_var_ok(items[i].k)

(***************************************************************************)
(* ConstDictVariable.call_method                                           *)
(***************************************************************************)
GetItemConst(st, self, arg, kr, items) ==
  IF ~kr.ok THEN Raise(st, kr.exc)
  ELSE IF ~Hashable(kr.key) THEN Raise(st, "TypeError")
  ELSE IF ~HasKey(items, kr.key) THEN Raise(st, "KeyError")
  ELSE Return(st, add_options(st.heap, GetItem(items, kr.key),
                              Propagate(st.heap, <<self, arg>>)), <<>>)

\* ConstDictVariable.getitem_const
getitem_const(st, self, arg) ==
  GetItemConst(st, self, arg, get_key(st.heap, arg), Var(st.heap, self).items)

\* items(): the pairs of key and value, in the order of val.items().
ItemsOut(val) == val

\* keys(): the keys, in the order of val.keys().
KeysOut(val) == [i \in DOMAIN val |-> [k |-> val[i].k, v |-> 0]]

\* values(): the values, in the order of val.values().
ValuesOut(val) == [i \in DOMAIN val |-> [k |-> "", v |-> val[i].v]]

\* A variant of WithValue that leaves out the value's own mutable_local.
WithValueContents(h, rc, x) == rc \cup Var(h, x).recursively_contains

\* recursively_contains of a mapping that takes the value x in.
WithValue(h, rc, x) ==
  rc \cup Var(h, x).recursively_contains
     \cup (IF Var(h, x).mutable_local # 0 THEN {Var(h, x).mutable_local}
           ELSE {})

\* A variant of SetItemNewval that moves an overwritten key to the end.
SetItemMoveToEnd(val, k, x) == Append(PopItem(val, k), [k |-> k, v |-> x])

\* newval = OrderedDict(val); newval[k] = args[1]
SetItemNewval(val, k, x) == SetItem(val, k, x)

\* A variant of SetItemReplace that returns the new variable without
\* calling replace_all.
SetItemUnregistered(st, self, nv) ==
  [ReturnReplaced(st, self, nv, RetNew(st, nv), 0) EXCEPT
     !.live = st.live, !.replaced = 0]

\* What both __setitem__ branches do once the key is stored: replace_all
\* with the clone that holds the new items.
SetItemReplace(st, self, nv) ==
  ReturnReplaced(st, self, nv, RetNew(st, nv), 0)

SetItemBody(st, self, args, options, k) ==
  SetItemReplace(st, self,
    modifed(st.heap, self,
            SetItemNewval(Var(st.heap, self).items, k, args[2]),
            <<WithValue(st.heap, Var(st.heap, self).recursively_contains,
                        args[2])>>,
            options))

\* A variant of StoreKey that registers nothing.
StoreNothing(wk, k) == wk

\* The registry after the store call of a __setitem__ branch.
StoreKey(wk, k) ==
  IF is_valid_global_ref_key(k)
  THEN store_global_weakref(wk, global_key_name(k))
  ELSE wk

StoreDictKey(wk, k) ==
  IF is_valid_global_ref_key(k)
  THEN store_dict_key(wk, global_key_name(k))
  ELSE wk

SetItemKeyed(st, self, args, options, kr) ==
  IF Len(args) # 2 THEN Raise(st, "AssertionError")
  ELSE IF ~kr.ok THEN Raise(st, kr.exc)
  ELSE IF ~Hashable(kr.key) THEN Raise(st, "TypeError")
  ELSE SetItemBody([st EXCEPT !.weak = StoreKey(st.weak, kr.key)],
                   self, args, options, kr.key)

\* __setitem__ on a receiver that has a mutable_local.
SetItemMutable(st, self, args, options) ==
  SetItemKeyed(st, self, args, options, get_key(st.heap, args[1]))

SetItemDemoted(st, self, args, options, kr) ==
  IF Len(args) # 2 THEN Raise(st, "AssertionError")
  ELSE IF ~kr.ok THEN Raise(st, kr.exc)
  ELSE IF ~Hashable(kr.key) THEN Raise(st, "TypeError")
  ELSE SetItemBody([st EXCEPT !.weak = StoreDictKey(st.weak, kr.key)],
                   self, args, options, kr.key)

\* A variant of SetItemDemote that refuses the call on a receiver without a
\* mutable_local.
SetItemRefused(st, self, args, options) == unimplemented(st)

\* __setitem__ on a receiver without one: self.mutable_local is assigned
\* first, on the receiver itself.
SetItemDemote(st, self, args, options) ==
  SetItemDemoted(
    [st EXCEPT !.heap[self - NLeaf].mutable_local = MutableLocal(st.heap)],
    self, args, options, get_key(st.heap, args[1]))

PopKeyed(st, self, options, kr, items) ==
  IF ~kr.ok THEN Raise(st, kr.exc)
  ELSE IF ~Hashable(kr.key) THEN Raise(st, "TypeError")
  ELSE IF ~HasKey(items, kr.key) THEN Raise(st, "KeyError")
  ELSE ReturnReplaced(st, self,
         modifed(st.heap, self, PopItem(items, kr.key), <<>>, options),
         add_options(st.heap, GetItem(items, kr.key), options), 0)

\* pop of a key on a receiver that has a mutable_local.
PopMutable(st, self, args, options) ==
  PopKeyed(st, self, options, get_key(st.heap, args[1]),
           Var(st.heap, self).items)

\* pop or get of a key that is not in the items, with a default.
MissingDefault(st, args, options) ==
  Return(st, add_options(st.heap, args[2], options), <<>>)

\* A variant of UpdateWith in which the receiver's value wins on a key that
\* both mappings hold.
UpdateWithKeep(st, self, options, me, other) ==
  SetItemReplace(st, self,
    modifed(st.heap, self,
            me.items \o SelectSeq(other.items,
                                  LAMBDA e : ~HasKey(me.items, e.k)),
            <<me.recursively_contains \cup other.recursively_contains>>,
            options))

UpdateWith(st, self, options, me, other) ==
  SetItemReplace(st, self,
    modifed(st.heap, self, UpdateItems(me.items, other.items),
            <<me.recursively_contains \cup other.recursively_contains>>,
            options))

\* update with a mapping variable on a receiver that has a mutable_local.
UpdateMutable(st, self, args, options) ==
  UpdateWith(st, self, options, Var(st.heap, self), Var(st.heap, args[1]))

\* A variant of GetPresent that returns the first value of the items
\* whatever the key.
GetPresentFirst(st, self, args, options) ==
  Return(st, add_options(st.heap, Var(st.heap, self).items[1].v, options),
         <<>>)

\* get of a key that is in the items.
GetPresent(st, self, args, options) ==
  Return(st, add_options(st.heap,
                         GetItem(Var(st.heap, self).items,
                                 get_key(st.heap, args[1]).key),
                         options), <<>>)

ContainsKeyed(st, self, options, kr) ==
  IF ~kr.ok THEN Raise(st, kr.exc)
  ELSE IF ~Hashable(kr.key) THEN Raise(st, "TypeError")
  ELSE Return(st,
         Fresh("ConstantVariable", options,
               IF HasKey(Var(st.heap, self).items, kr.key)
               THEN "True" ELSE "False", 0),
         <<>>)

\* __contains__ with a valid key: get_key is called with the key alone.
Contains(st, self, args, options) ==
  ContainsKeyed(st, self, options, CallGetKey(st.heap, <<args[1]>>))

\* A variant of KeyIn that takes every key for present.
KeyInAlways(h, self, arg) == TRUE

\* Whether the test of get_key(tx, args[0]) against the items, in the
\* conditions of the pop and get branches, raises: the key does not hash.
KeyUnhashable(h, arg) ==
  get_key(h, arg).ok /\ ~Hashable(get_key(h, arg).key)

\* Whether get_key(tx, args[0]) is a key of the items, as the conditions
\* of the pop and get branches ask after is_valid_key, for a key that
\* hashes.
KeyIn(h, self, arg) ==
  get_key(h, arg).ok /\ HasKey(Var(h, self).items, get_key(h, arg).key)

\* The branches of call_method in the order of the source.  val is
\* self.items, mutable whether self.mutable_local is set, valid0 is
\* `args and is_valid_key(args[0])`, present is KeyIn.  args[0] of an empty
\* argument list is an IndexError.
ConstDictBranches(st, self, name, args, options, val, mutable, valid0, present) ==
  IF name = "__getitem__" THEN
    IF args = <<>> THEN Raise(st, "IndexError")
    ELSE getitem_const(st, self, args[1])
  ELSE IF name = "items" THEN
    IF Len(args) > 0 \/ ~KeyVarsOk(val) THEN Raise(st, "AssertionError")
    ELSE Return(st, Fresh("TupleVariable", options, "", 0), ItemsOut(val))
  ELSE IF name = "keys" THEN
    IF Len(args) > 0 \/ ~KeyVarsOk(val) THEN Raise(st, "AssertionError")
    ELSE Return(st, Fresh("SetVariable", options, "", 0), KeysOut(val))
  ELSE IF name = "values" THEN
    IF Len(args) > 0 THEN Raise(st, "AssertionError")
    ELSE Return(st, Fresh("TupleVariable", options, "", 0), ValuesOut(val))
  ELSE IF name = "__len__" THEN
    IF Len(args) > 0 THEN Raise(st, "AssertionError")
    ELSE Return(st, Fresh("ConstantVariable", options, "", Len(val)), <<>>)
  ELSE IF name = "__setitem__" /\ valid0 /\ mutable THEN
    SetItemMutable(st, self, args, options)
  ELSE IF /\ name \in {"pop", "get"}
          /\ valid0
          /\ KeyUnhashable(st.heap, args[1]) THEN
    Raise(st, "TypeError")
  ELSE IF name \in {"pop", "get"} /\ valid0 /\ ~present /\ Len(args) = 2 THEN
    MissingDefault(st, args, options)
  ELSE IF name = "pop" /\ valid0 /\ mutable THEN
    PopMutable(st, self, args, options)
  ELSE IF /\ name = "update"
          /\ Len(args) > 0
          /\ Var(st.heap, args[1]).cls \in DictClasses
          /\ mutable THEN
    UpdateMutable(st, self, args, options)
  ELSE IF /\ name = "__getattr__"
          /\ valid0
          /\ KeyUnhashable(st.heap, args[1]) THEN
    Raise(st, "TypeError")
  ELSE IF name \in {"get", "__getattr__"} /\ valid0 /\ present THEN
    GetPresent(st, self, args, options)
  ELSE IF name = "__contains__" /\ valid0 THEN
    Contains(st, self, args, options)
  ELSE IF name = "__contains__" THEN
    IF args = <<>> THEN Raise(st, "IndexError") ELSE unimplemented(st)
  ELSE IF name = "__setitem__" /\ valid0 THEN
    SetItemDemote(st, self, args, options)
  ELSE base_call_method(st, self, name, args)

ConstDict_call_method(st, self, name, args) ==
  ConstDictBranches(st, self, name, args,
    Propagate(st.heap, <<self>> \o args),
    Var(st.heap, self).items,
    Var(st.heap, self).mutable_local # 0,
    Len(args) > 0 /\ is_valid_key(st.heap, args[1]),
    KeyIn(st.heap, self, args[1]))

(***************************************************************************)
(* DefaultDictVariable.call_method                                         *)
(***************************************************************************)
\* self.default_factory.call_function(tx, [], {}): the variable the
\* factory makes, a new mutable value that carries the factory's guards.
call_function(h, f) ==
  [Blank EXCEPT !.cls = "ListVariable", !.const = TRUE, !.value = "[]",
                !.mutable_local = MutableLocal(h),
                !.guards = Var(h, f).guards]

\* What the miss returns: default_var as the factory made it.
MissResult(h, default_var) == Ret(h, default_var)

\* The miss once the factory has made default_var, in the heap h1.
DefaultMissWith(st, self, k, options, me, h1, default_var) ==
  ReturnReplaced(
    [st EXCEPT !.heap = h1, !.weak = StoreKey(st.weak, k)],
    self,
    modifed(h1, self, SetItem(me.items, k, default_var),
            <<WithValue(h1, me.recursively_contains, default_var)>>, options),
    MissResult(h1, default_var), 1)

\* __getitem__ of a key that is not in the items, with a factory.
DefaultMiss(st, self, k, options) ==
  DefaultMissWith(st, self, k, options, Var(st.heap, self),
    Append(st.heap,
           call_function(st.heap, Var(st.heap, self).default_factory)),
    NewRef(st.heap))

\* A variant of DefaultHit that calls the factory for a key the items
\* hold already.
DefaultHitFactory(st, self, arg) ==
  [getitem_const(st, self, arg) EXCEPT !.factory = 1]

\* __getitem__ of a key that is in the items.
DefaultHit(st, self, arg) == getitem_const(st, self, arg)

DefaultGetItem(st, self, args, options, me, kr) ==
  IF ~kr.ok THEN Raise(st, kr.exc)
  ELSE IF ~Hashable(kr.key) THEN Raise(st, "TypeError")
  ELSE IF HasKey(me.items, kr.key) THEN DefaultHit(st, self, args[1])
  ELSE IF me.default_factory = 0 THEN Raise(st, "KeyError")
  ELSE DefaultMiss(st, self, kr.key, options)

DefaultDict_call_method(st, self, name, args) ==
  IF name = "__getitem__" /\ args = <<>> THEN Raise(st, "IndexError")
  ELSE IF name = "__getitem__"
  THEN DefaultGetItem(st, self, args, Propagate(st.heap, <<self>> \o args),
                      Var(st.heap, self), get_key(st.heap, args[1]))
  ELSE ConstDict_call_method(st, self, name, args)

(***************************************************************************)
(* ConstDictVariable.unpack_var_sequence and reconstruct                   *)
(***************************************************************************)
UnpackOut(val) == [i \in DOMAIN val |-> [k |-> val[i].k, v |-> 0]]

UnpackItems(st, val) ==
  IF ~KeyVarsOk(val) THEN Raise(st, "AssertionError")
  ELSE Return(st, NoRet, UnpackOut(val))

unpack_var_sequence(st, self) == UnpackItems(st, Var(st.heap, self).items)

\* One instruction: LOAD_CONST carries the key, LOAD_GLOBAL the name of the
\* global, BUILD_MAP and CALL_FUNCTION the count n; VALUE stands for what
\* codegen(value) emits for the value v.
Instr(op, key, n, v) == [op |-> op, key |-> key, n |-> n, v |-> v]

\* A variant of KeyCode that loads every key as a constant.
KeyCodeConst(k) == << Instr("LOAD_CONST", k, 0, 0) >>

\* The instructions of one key.
KeyCode(k) ==
  IF is_valid_global_ref_key(k)
  THEN << Instr("LOAD_GLOBAL", global_key_name(k), 0, 0),
          Instr("CALL_FUNCTION", "", 0, 0) >>
  ELSE << Instr("LOAD_CONST", k, 0, 0) >>

\* The instructions of the keys and values from the i-th item on.
RECURSIVE KeyValueCode(_, _)
KeyValueCode(items, i) ==
  IF i > Len(items) THEN <<>>
  ELSE KeyCode(items[i].k) \o << Instr("VALUE", "", 0, items[i].v) >>
       \o KeyValueCode(items, i + 1)

ReconstructOf(me) ==
  (IF me.user_cls = "OrderedDict"
   THEN << Instr("LOAD_PYTHON_MODULE", "collections", 0, 0),
           Instr("LOAD_ATTR", "OrderedDict", 0, 0) >>
   ELSE <<>>)
  \o KeyValueCode(me.items, 1)
  \o (IF me.user_cls = "OrderedDict"
      THEN << Instr("BUILD_MAP", "", Len(me.items), 0),
              Instr("CALL_FUNCTION", "", 1, 0) >>
      ELSE << Instr("BUILD_MAP", "", Len(me.items), 0) >>)

\* ConstDictVariable.reconstruct: what it appends to the output followed
\* by what it returns.
ConstDict_reconstruct(h, self) == ReconstructOf(Var(h, self))

(***************************************************************************)
(* PythonSysModulesVariable                                                *)
(***************************************************************************)
\* sys.modules: the keys of the live table.
sys_modules == {"alpha", "x"}

\* self.make_guard(partial(GuardBuilder.DICT_CONTAINS, key=k, invert=...))
DictContainsGuard(k, invert) ==
  IF invert THEN "NOT_DICT_CONTAINS(" \o k \o ")"
  ELSE "DICT_CONTAINS(" \o k \o ")"

ContainsHelperOf(guards, kr) ==
  [ok |-> kr.ok, exc |-> kr.exc, k |-> kr.key,
   has_key |-> kr.key \in sys_modules,
   guards |-> guards \cup {DictContainsGuard(kr.key, ~(kr.key \in sys_modules))}]

\* PythonSysModulesVariable._contains_helper: get_key is called with the
\* key alone.
contains_helper(h, self, key) ==
  ContainsHelperOf(Var(h, self).guards, CallGetKey(h, <<key>>))

CallContainsWith(st, c) ==
  IF ~c.ok THEN Raise(st, c.exc)
  ELSE Return(st, Fresh("ConstantVariable", c.guards,
                        IF c.has_key THEN "True" ELSE "False", 0), <<>>)

call_contains(st, self, key) ==
  CallContainsWith(st, contains_helper(st.heap, self, key))

\* VariableBuilder(tx, GetItemSource(self.source, k))(sys.modules[k])
\* .add_guards(guards): the module of the table as a variable.
WrapModule(k, guards) == Fresh("PythonModuleVariable", guards, k, 0)

CallGetWith(st, default, c) ==
  IF ~c.ok THEN Raise(st, c.exc)
  ELSE IF c.has_key THEN Return(st, WrapModule(c.k, c.guards), <<>>)
  ELSE IF default # <<>>
  THEN Return(st, add_options(st.heap, default[1], c.guards), <<>>)
  ELSE Return(st, Fresh("ConstantVariable", c.guards, "None", 0), <<>>)

\* default = <<>> is no default given.
call_get(st, self, key, default) ==
  CallGetWith(st, default, contains_helper(st.heap, self, key))

CallGetItemWith(st, c) ==
  IF ~c.ok THEN Raise(st, c.exc)
  ELSE IF ~c.has_key THEN Raise(st, "KeyError")
  ELSE Return(st, WrapModule(c.k, c.guards), <<>>)

call_getitem(st, self, key) ==
  CallGetItemWith(st, contains_helper(st.heap, self, key))

\* PythonSysModulesVariable.call_method for the three names it handles
\* itself.
SysModules_call_method(st, self, name, args) ==
  IF name = "__getitem__" THEN call_getitem(st, self, args[1])
  ELSE IF name = "get"
  THEN call_get(st, self, args[1], SubSeq(args, 2, Len(args)))
  ELSE call_contains(st, self, args[1])

(***************************************************************************)
(* DataClassVariable                                                       *)
(***************************************************************************)
\* dataclasses.fields(user_cls): name and default of each field of the two
\* record classes of the traces.  "MISSING" is dataclasses.MISSING, a field
\* without a default.
Fields(user_cls) ==
  IF user_cls = "Out3"
  THEN << [name |-> "a", default |-> "None"],
          [name |-> "b", default |-> "None"],
          [name |-> "c", default |-> "None"] >>
  ELSE << [name |-> "a", default |-> "MISSING"],
          [name |-> "b", default |-> "5"] >>

\* DataClassVariable.include_none
include_none == FALSE

\* Keyword arguments are a sequence of [name, v] with distinct names.
KwNames(kwargs) == {kwargs[i].name : i \in DOMAIN kwargs}
KwRef(kwargs, name) ==
  kwargs[CHOOSE i \in DOMAIN kwargs : kwargs[i].name = name].v

\* inspect.signature(user_cls).bind(*args, **kwargs) returns: no more
\* positionals than fields, each keyword a field no positional has bound,
\* and every field without a default bound.  It is a TypeError otherwise.
BindOk(fs, args, kwargs) ==
  /\ Len(args) <= Len(fs)
  /\ \A n \in KwNames(kwargs) :
        \E i \in DOMAIN fs : i > Len(args) /\ fs[i].name = n
  /\ \A i \in DOMAIN fs :
        (i > Len(args) /\ fs[i].name \notin KwNames(kwargs))
          => fs[i].default # "MISSING"

\* bound.arguments after apply_defaults(), by field: the variable bound,
\* or 0 where the field's default (a plain value) has been filled in.
Bound(fs, args, kwargs) ==
  [i \in DOMAIN fs |->
     IF i <= Len(args) THEN args[i]
     ELSE IF fs[i].name \in KwNames(kwargs) THEN KwRef(kwargs, fs[i].name)
     ELSE 0]

\* variables.ConstantVariable.create(val) for the literals of the traces: a
\* constant that carries no guards.
ConstantRef(val) ==
  CASE val = "None" -> 26
    [] val = "5" -> 24
    [] val = "a" -> 20
    [] val = "b" -> 21
    [] val = "c" -> 22
    [] OTHER -> 0

\* The asserts of the loop over the keys in create.
CreateAssert(fs, bound) ==
  \A i \in DOMAIN fs :
     bound[i] = 0 =>
       IF include_none THEN is_literal(fs[i].default)
       ELSE fs[i].default = "None"

\* What the loop in create stores for each field: v = 0 is no entry.
CreateEntries(fs, bound) ==
  [i \in DOMAIN fs |->
     [k |-> fs[i].name,
      v |-> IF bound[i] # 0 THEN bound[i]
            ELSE IF include_none THEN ConstantRef(fs[i].default)
            ELSE 0]]

CreateItems(fs, bound) == SelectSeq(CreateEntries(fs, bound), LAMBDA e : e.v # 0)

\* cls(items, user_cls, **options)
NewRecord(h, items, user_cls, options) ==
  [Blank EXCEPT !.cls = "DataClassVariable", !.items = items,
                !.user_cls = user_cls,
                !.mutable_local = options.mutable_local,
                !.recursively_contains = AggregateMutables(h, items),
                !.guards = options.guards \cup ItemGuards(h, items)]

\* A call that makes the variable nv and returns it.
ReturnNew(st, nv) ==
  [heap |-> Append(st.heap, nv), live |-> st.live, weak |-> st.weak,
   outcome |-> "return", ret |-> RetNew(st, nv), out |-> <<>>,
   replaced |-> 0, newvar |-> NewRef(st.heap), factory |-> 0]

\* The check after the loop: `len(items) == 1 and not
\* isinstance(items[keys[0]], TensorVariable)`.
CreateChecked(st, user_cls, options, fs, items) ==
  IF Len(items) = 1 /\ items[1].k # fs[1].name THEN Raise(st, "KeyError")
  ELSE IF Len(items) = 1 /\ Var(st.heap, items[1].v).cls # "TensorVariable"
  THEN unimplemented(st)
  ELSE ReturnNew(st, NewRecord(st.heap, items, user_cls, options))

CreateBound(st, user_cls, options, fs, ok, bound) ==
  IF ~ok THEN Raise(st, "TypeError")
  ELSE IF ~CreateAssert(fs, bound) THEN Raise(st, "AssertionError")
  ELSE CreateChecked(st, user_cls, options, fs, CreateItems(fs, bound))

\* DataClassVariable.create(user_cls, args, kwargs, options)
DataClass_create(st, user_cls, args, kwargs, options) ==
  CreateBound(st, user_cls, options, Fields(user_cls),
              BindOk(Fields(user_cls), args, kwargs),
              Bound(Fields(user_cls), args, kwargs))

\* builder.__class__(tx=..., source=...)(val): the variable the builder
\* wraps an attribute value in; it carries the guards of its source.
BuilderVar(val) ==
  CASE val = "None" -> 23
    [] val = "T" -> 17
    [] OTHER -> 12

\* The loop of wrap over the keys.  obj gives the attribute of each field:
\* "absent" when the object has none, else its value.
WrapEntries(fs, obj) ==
  [i \in DOMAIN fs |->
     [k |-> fs[i].name,
      v |-> IF obj[i] = "absent" THEN 0
            ELSE IF obj[i] # "None" \/ include_none THEN BuilderVar(obj[i])
            ELSE 0]]

WrapItems(fs, obj) == SelectSeq(WrapEntries(fs, obj), LAMBDA e : e.v # 0)

\* excluded: the variables of the attributes that are None.
Excluded(fs, obj) ==
  IF include_none THEN <<>>
  ELSE [i \in 1..Len(SelectSeq(obj, LAMBDA o : o = "None")) |-> BuilderVar("None")]

WrapOf(st, user_cls, items, excluded) ==
  ReturnNew(st,
    NewRecord(st.heap, items, user_cls,
              [guards |-> Propagate(st.heap, excluded \o Values(items)),
               mutable_local |-> 0]))

\* DataClassVariable.wrap(builder, obj), obj of class user_cls
DataClass_wrap(st, user_cls, obj) ==
  WrapOf(st, user_cls, WrapItems(Fields(user_cls), obj),
         Excluded(Fields(user_cls), obj))

\* int(index) of an integer constant.
IntOf(k) ==
  CASE k = "1" -> 1 [] k = "2" -> 2 [] k = "3" -> 3 [] k = "4" -> 4
    [] k = "5" -> 5 [] k = "7" -> 7 [] OTHER -> 0 - 1

\* to_tuple().__getitem__(index) for an integer index: the element of the
\* tuple of values, or IndexError.
TupleGetItem(st, items, index, options) ==
  IF IntOf(index) >= 0 /\ IntOf(index) < Len(items)
  THEN Return(st, add_options(st.heap, items[IntOf(index) + 1].v, options),
              <<>>)
  ELSE Raise(st, "IndexError")

RecordGetItem(st, args, options, items, index) ==
  IF Len(args) # 1 THEN Raise(st, "AssertionError")
  ELSE IF ~index.ok THEN Raise(st, "NotImplementedError")
  ELSE IF PyType(index.value) = "str"
  THEN IF HasKey(items, index.value)
       THEN Return(st, add_options(st.heap, GetItem(items, index.value),
                                   options), <<>>)
       ELSE Raise(st, "KeyError")
  ELSE TupleGetItem(st, items, index.value, options)

RecordBranches(st, self, name, args, options, items) ==
  IF name = "__getitem__"
  THEN RecordGetItem(st, args, options, items,
                     as_python_constant(st.heap, args[1]))
  ELSE IF name = "to_tuple"
  THEN IF Len(args) > 0 THEN Raise(st, "AssertionError")
       ELSE Return(st, Fresh("TupleVariable", options, "", 0),
                   ValuesOut(items))
  ELSE IF name = "__setattr__"
  THEN ConstDict_call_method(st, self, "__setitem__", args)
  ELSE ConstDict_call_method(st, self, name, args)

\* DataClassVariable.call_method
DataClass_call_method(st, self, name, args) ==
  RecordBranches(st, self, name, args, Propagate(st.heap, <<self>> \o args),
                 Var(st.heap, self).items)

\* codegen.create_call_function_kw(nargs, kw_names, push_null): the call
\* with n arguments, the last of them bound to the names, in their order.
KwCall(names, n) ==
  [op |-> "CALL_FUNCTION_KW", key |-> "", n |-> n, v |-> 0, names |-> names]

\* A variant of RecordCode that builds a mapping of the items and calls
\* the class with it.
RecordCodeBuildMap(me) ==
  << Instr("LOAD_CONST", me.user_cls, 0, 0) >>
  \o KeyValueCode(me.items, 1)
  \o << Instr("BUILD_MAP", "", Len(me.items), 0),
        Instr("CALL_FUNCTION", "", 1, 0) >>

\* The instructions of a record's reconstruct: the class, the value of
\* each key of tuple(self.items.keys()), the keyword call.
RecordCode(me) ==
  << Instr("LOAD_CONST", me.user_cls, 0, 0) >>
  \o [i \in DOMAIN me.items |-> Instr("VALUE", "", 0, me.items[i].v)]
  \o << KwCall(Keys(me.items), Len(me.items)) >>

\* DataClassVariable.reconstruct: what it appends to the output followed
\* by what it returns.
DataClass_reconstruct(h, self) == RecordCode(Var(h, self))

\* VariableTracker.var_getattr: const_getattr of the base class raises
\* NotImplementedError.
base_var_getattr(st, self, name) == Raise(st, "NotImplementedError")

\* A call whose result the caller does not return: None comes back when
\* the call returns, the exception when it raises.
Dropped(eff) ==
  IF eff.outcome = "return" THEN [eff EXCEPT !.ret = NoRet] ELSE eff

\* defaults[name] of `{f.name: f.default for f in fields(user_cls)}`
FieldDefault(fs, name) ==
  fs[CHOOSE i \in DOMAIN fs : fs[i].name = name].default

FieldNames(fs) == {fs[i].name : i \in DOMAIN fs}

\* The branch of var_getattr for a name in the defaults.
DefaultAttr(st, me, default) ==
  IF ~is_literal(default) THEN Raise(st, "AssertionError")
  ELSE Return(st, Fresh("ConstantVariable", me.guards, default, 0), <<>>)

RecordGetAttr(st, self, name, me, fs) ==
  IF HasKey(me.items, name)
  THEN DataClass_call_method(st, self, "__getitem__", <<ConstantRef(name)>>)
  ELSE IF ~include_none /\ name \in FieldNames(fs)
  THEN DefaultAttr(st, me, FieldDefault(fs, name))
  ELSE Dropped(base_var_getattr(st, self, name))

\* DataClassVariable.var_getattr
DataClass_var_getattr(st, self, name) ==
  RecordGetAttr(st, self, name, Var(st.heap, self),
                Fields(Var(st.heap, self).user_cls))

(***************************************************************************)
(* Traces.  The tracer wraps four mappings of the traced program, binds    *)
(* them to its live names, and then interprets calls on what the name "a"  *)
(* holds.  last records the call just interpreted: its inputs, how it      *)
(* ended, and the tracer's state before it.                                *)
(***************************************************************************)
InitHeap ==
  << [Blank EXCEPT !.cls = "ConstDictVariable", !.user_cls = "dict",
                   !.items = << [k |-> "x", v |-> 8], [k |-> "y", v |-> 9] >>,
                   !.mutable_local = 1, !.guards = {"gd1", "g1"}],
     [Blank EXCEPT !.cls = "ConstDictVariable", !.user_cls = "OrderedDict",
                   !.items = << [k |-> "y", v |-> 10], [k |-> "z", v |-> 11] >>,
                   !.guards = {"gd2", "g3"}],
     [Blank EXCEPT !.cls = "DefaultDictVariable", !.user_cls = "defaultdict",
                   !.default_factory = 14, !.mutable_local = 2,
                   !.guards = {"gd3"}],
     [Blank EXCEPT !.cls = "DefaultDictVariable", !.user_cls = "defaultdict",
                   !.items = << [k |-> "x", v |-> 8] >>,
                   !.mutable_local = 3, !.guards = {"gd4", "g1"}] >>

InitRefs == {Ref(i) : i \in DOMAIN InitHeap}

\* The live names of the tracer.
Aliases == {"a", "b"}

\* What the traced program passes: keys, values, defaults (<<>> is none
\* given), candidates for a key, keys and names for sys.modules.
DictKeyArgs == {1, 2, 3, 4}
ValueArgs == {12, 13}
Defaults == {<<>>, <<12>>}
AnyKeyArgs == {1, 3, 4, 5, 6, 7, 13, 15, 23}
SysKeyArgs == {1, 18, 19}
SysNames == {"__contains__", "get", "__getitem__"}

St == [heap |-> heap, live |-> live, weak |-> weak]

NoCall ==
  [op |-> "", recv |-> 0, args |-> <<>>, kwargs |-> <<>>, user_cls |-> "",
   obj |-> <<>>, attr |-> "", code |-> <<>>]

Init ==
  /\ NLeaf = Len(Leaves)
  /\ heap = InitHeap
  /\ live \in {l \in [Aliases -> InitRefs] : l["b"] \in {l["a"], Ref(2)}}
  /\ weak = {}
  /\ last = [op |-> "", recv |-> 0, args |-> <<>>, kwargs |-> <<>>,
             user_cls |-> "", obj |-> <<>>, attr |-> "", code |-> <<>>,
             outcome |-> "", ret |-> NoRet, out |-> <<>>, replaced |-> 0,
             newvar |-> 0, factory |-> 0,
             heap0 |-> heap, live0 |-> live, weak0 |-> weak]

\* Whether the call before this state changed the tracer's state.  A call
\* that changed nothing leaves the state it started in, and the calls that
\* can follow it are the ones that could be made in its place.
Changed ==
  \/ last.op = ""
  \/ heap # last.heap0
  \/ live # last.live0
  \/ weak # last.weak0

\* One interpreted call c with the effect eff.
Step(c, eff) ==
  /\ Changed
  /\ Len(eff.heap) <= Len(InitHeap) + MaxVars
  /\ heap' = eff.heap
  /\ live' = eff.live
  /\ weak' = eff.weak
  /\ last' = [op |-> c.op, recv |-> c.recv, args |-> c.args,
              kwargs |-> c.kwargs, user_cls |-> c.user_cls, obj |-> c.obj,
              attr |-> c.attr, code |-> c.code,
              outcome |-> eff.outcome, ret |-> eff.ret, out |-> eff.out,
              replaced |-> eff.replaced, newvar |-> eff.newvar,
              factory |-> eff.factory,
              heap0 |-> heap, live0 |-> live, weak0 |-> weak]

\* call_method on a dict or defaultdict variable, by its class.
call_method(st, self, name, args) ==
  IF Var(st.heap, self).cls = "DefaultDictVariable"
  THEN DefaultDict_call_method(st, self, name, args)
  ELSE ConstDict_call_method(st, self, name, args)

\* Whether the name "a" holds a dict or defaultdict variable.
IsDict ==
  Var(heap, live["a"]).cls \in {"ConstDictVariable", "DefaultDictVariable"}

\* live["a"].call_method(tx, name, args, {})
Call(name, args) ==
  Step([NoCall EXCEPT !.op = name, !.recv = live["a"], !.args = args],
       call_method(St, live["a"], name, args))

GetItemOp ==
  /\ IsDict
  /\ \E k \in DictKeyArgs : Call("__getitem__", <<k>>)

ItemsOp ==
  /\ IsDict
  /\ Call("items", <<>>)

KeysOp ==
  /\ IsDict
  /\ Call("keys", <<>>)

ValuesOp ==
  /\ IsDict
  /\ Call("values", <<>>)

LenOp ==
  /\ IsDict
  /\ Call("__len__", <<>>)

SetItemOp ==
  /\ IsDict
  /\ \E k \in DictKeyArgs : \E x \in ValueArgs :
       Call("__setitem__", <<k, x>>)

\* __setitem__ called with the key alone: the assert on len(args) fails.
SetItemArityOp ==
  /\ IsDict
  /\ \E k \in DictKeyArgs : Call("__setitem__", <<k>>)

PopOp ==
  /\ IsDict
  /\ \E k \in DictKeyArgs : \E d \in Defaults : Call("pop", <<k>> \o d)

GetOp ==
  /\ IsDict
  /\ \E k \in DictKeyArgs : \E d \in Defaults : Call("get", <<k>> \o d)

UpdateOp ==
  /\ IsDict
  /\ \E o \in {live["b"], Ref(2), Ref(4), 12, 25} : Call("update", <<o>>)

ContainsOp ==
  /\ IsDict
  /\ \E k \in DictKeyArgs : Call("__contains__", <<k>>)

UnpackOp ==
  /\ IsDict
  /\ Step([NoCall EXCEPT !.op = "unpack_var_sequence", !.recv = live["a"]],
       unpack_var_sequence(St, live["a"]))

ReconstructOp ==
  /\ IsDict
  /\ Step([NoCall EXCEPT !.op = "reconstruct", !.recv = live["a"],
                      !.code = ConstDict_reconstruct(heap, live["a"])],
       Return(St, NoRet, <<>>))

\* live["a"].is_python_constant(): ret.value is the answer.
IsConstantOp ==
  /\ IsDict
  /\ Step([NoCall EXCEPT !.op = "is_python_constant", !.recv = live["a"]],
          Return(St, Fresh("bool", {},
                           IF is_python_constant(heap, live["a"])
                           THEN "True" ELSE "False", 0),
                 <<>>))

\* The two answers about a candidate key x: ret.value is what
\* is_valid_key(x) returns, the outcome is that of get_key(tx, x).
CheckKey(st, valid, kr) ==
  [Raise(st, IF kr.ok THEN "return" ELSE kr.exc) EXCEPT
     !.ret = Fresh("bool", {}, IF valid THEN "True" ELSE "False", 0),
     !.out = << [k |-> kr.key, v |-> 0] >>]

\* Both read x and nothing else of the tracer's state: they are asked at
\* the start of a trace.
CheckKeyOp ==
  \E x \in AnyKeyArgs \cup {live["a"]} :
    /\ last.op = ""
    /\ Step([NoCall EXCEPT !.op = "key", !.args = <<x>>],
            CheckKey(St, is_valid_key(heap, x), CallGetKey(heap, <<tx, x>>)))

\* The calls on the sys.modules variable read sys.modules and the key:
\* they are made at the start of a trace.
SysModulesOp ==
  \E name \in SysNames : \E k \in SysKeyArgs : \E d \in Defaults :
    /\ last.op = ""
    /\ name # "get" => d = <<>>
    /\ Step([NoCall EXCEPT !.op = name, !.recv = 16, !.args = <<k>> \o d],
            SysModules_call_method(St, 16, name, <<k>> \o d))

Next ==
  \/ GetItemOp
  \/ ItemsOp
  \/ KeysOp
  \/ ValuesOp
  \/ LenOp
  \/ SetItemOp
  \/ SetItemArityOp
  \/ PopOp
  \/ GetOp
  \/ UpdateOp
  \/ ContainsOp
  \/ UnpackOp
  \/ ReconstructOp
  \/ IsConstantOp
  \/ CheckKeyOp
  \/ SysModulesOp

Spec == Init /\ [][Next]_vars

(***************************************************************************)
(* Traces with a record.  The first call constructs a record variable      *)
(* (create, for a call of the record class in the traced program; wrap,    *)
(* for a record object the traced program holds) and the tracer stores it  *)
(* under the name "a"; calls on the record follow.                         *)
(***************************************************************************)
RecordClasses == {"Out3", "Out2"}
CreateArgs == {<<>>, <<17>>, <<12>>, <<17, 12>>, <<17, 12, 12>>}
CreateKwargs ==
  { <<>>,
    << [name |-> "a", v |-> 17] >>,
    << [name |-> "b", v |-> 12] >>,
    << [name |-> "b", v |-> 17] >>,
    << [name |-> "c", v |-> 12] >>,
    << [name |-> "b", v |-> 17], [name |-> "c", v |-> 12] >>,
    << [name |-> "zz", v |-> 12] >> }
AttrValues == {"absent", "None", "T"}
AttrNames == {"a", "b", "c", "q"}
RecordIndexArgs == {20, 21, 8, 4}
RecordKeyArgs == {20, 22}
RecordValueArgs == {12, 17}

KwValues(kwargs) == [i \in DOMAIN kwargs |-> kwargs[i].v]

\* The options the caller of create passes: the guards of what the call
\* was made with, and a MutableLocal() when mutable is set.
CreateOptions(h, args, kwargs, mutable) ==
  [guards |-> Propagate(h, args \o KwValues(kwargs)),
   mutable_local |-> IF mutable THEN MutableLocal(h) ELSE 0]

\* STORE_FAST a: the name is bound to the variable the call returned.
Stored(eff) ==
  IF eff.outcome = "return" /\ eff.newvar # 0
  THEN [eff EXCEPT !.live["a"] = eff.newvar]
  ELSE eff

IsRecord == Var(heap, live["a"]).cls = "DataClassVariable"

CreateOp ==
  \E user_cls \in RecordClasses : \E args \in CreateArgs :
  \E kwargs \in CreateKwargs : \E mutable \in BOOLEAN :
    /\ Len(heap) = Len(InitHeap)
    /\ Step([NoCall EXCEPT !.op = "create", !.user_cls = user_cls,
                           !.args = args, !.kwargs = kwargs],
            Stored(DataClass_create(St, user_cls, args, kwargs,
                     CreateOptions(heap, args, kwargs, mutable))))

WrapOp ==
  \E user_cls \in RecordClasses :
  \E obj \in [DOMAIN Fields(user_cls) -> AttrValues] :
    /\ Len(heap) = Len(InitHeap)
    /\ Step([NoCall EXCEPT !.op = "wrap", !.user_cls = user_cls,
                           !.obj = obj],
            Stored(DataClass_wrap(St, user_cls, obj)))

\* live["a"].call_method(tx, name, args, {}) on a record
RecordCall(name, args) ==
  Step([NoCall EXCEPT !.op = name, !.recv = live["a"], !.args = args],
          DataClass_call_method(St, live["a"], name, args))

VarGetattrOp ==
  \E name \in AttrNames :
    /\ IsRecord
    /\ Step([NoCall EXCEPT !.op = "var_getattr", !.recv = live["a"],
                           !.attr = name],
            DataClass_var_getattr(St, live["a"], name))

RecordGetItemOp ==
  /\ IsRecord
  /\ \E k \in RecordIndexArgs : RecordCall("__getitem__", <<k>>)

ToTupleOp ==
  /\ IsRecord
  /\ RecordCall("to_tuple", <<>>)

SetAttrOp ==
  /\ IsRecord
  /\ \E k \in RecordKeyArgs : \E x \in RecordValueArgs :
       RecordCall("__setattr__", <<k, x>>)

RecordPopOp ==
  /\ IsRecord
  /\ \E k \in RecordKeyArgs : \E d \in Defaults :
       RecordCall("pop", <<k>> \o d)

RecordReconstructOp ==
  /\ IsRecord
  /\ Step([NoCall EXCEPT !.op = "reconstruct", !.recv = live["a"],
                      !.code = DataClass_reconstruct(heap, live["a"])],
          Return(St, NoRet, <<>>))

NextRecord ==
  \/ CreateOp
  \/ WrapOp
  \/ VarGetattrOp
  \/ RecordGetItemOp
  \/ ToTupleOp
  \/ SetAttrOp
  \/ RecordPopOp
  \/ RecordReconstructOp

SpecRecord == Init /\ [][NextRecord]_vars

(***************************************************************************)
(* CustomizedDictVariable                                                  *)
(***************************************************************************)
\* The classes a CustomizedDictVariable is made for in the traces: the two
\* record classes (dataclasses derived from ModelOutput) and "CustomDict",
\* a subclass of OrderedDict that keeps OrderedDict.__init__ and defines
\* __getitem__ and pop itself.
CustomClasses == RecordClasses \cup {"CustomDict"}

\* dataclasses.is_dataclass(user_cls)
is_dataclass(user_cls) == user_cls \in RecordClasses

\* The names dict or OrderedDict defines: getattr of a subclass that does
\* not override the name gives a method whose __objclass__ is one of the two.
DictMethodNames ==
  {"get", "keys", "values", "items", "__len__", "__contains__",
   "__getitem__", "__setitem__", "__delitem__", "__iter__", "__reversed__",
   "__eq__", "__ne__", "__lt__", "__le__", "__gt__", "__ge__", "__or__",
   "__ror__", "__ior__", "__repr__", "__init__", "__reduce__",
   "__sizeof__", "__getattribute__", "update", "setdefault", "pop",
   "popitem", "clear", "copy", "move_to_end"}

\* The names a mapping class takes from object, as slot wrappers or
\* methods whose __objclass__ is object (Python 3.11).
ObjectSlotNames ==
  {"__setattr__", "__delattr__", "__str__", "__dir__", "__format__",
   "__reduce_ex__", "__getstate__"}

\* The names getattr finds that are no method with an __objclass__ and no
\* function (Python 3.11): class methods, the attributes every class has of
\* itself or through type and, for a record class, what the dataclass
\* decorator sets and the defaults of its fields.  __abstractmethods__ is
\* not among them: reading it on a class that sets none is an
\* AttributeError.
OtherAttrNames(user_cls) ==
  {"fromkeys", "mro", "__hash__", "__class__", "__doc__", "__new__",
   "__dict__", "__module__", "__name__", "__qualname__", "__annotations__",
   "__base__", "__bases__", "__mro__", "__call__", "__subclasses__",
   "__instancecheck__", "__subclasscheck__", "__prepare__",
   "__class_getitem__", "__init_subclass__", "__subclasshook__",
   "__basicsize__", "__itemsize__", "__flags__", "__dictoffset__",
   "__weakrefoffset__", "__text_signature__"}
  \cup (IF is_dataclass(user_cls)
        THEN {"__dataclass_fields__", "__dataclass_params__",
              "__match_args__"}
             \cup {Fields(user_cls)[i].name :
                     i \in {j \in DOMAIN Fields(user_cls) :
                              Fields(user_cls)[j].default # "MISSING"}}
        ELSE {})

\* The names the class or one of its Python bases defines as functions: a
\* record class has those of ModelOutput and of the dataclass decorator,
\* CustomDict its own __getitem__ and pop.
ClassFunctions(user_cls) ==
  IF is_dataclass(user_cls)
  THEN {"__getitem__", "__setitem__", "__setattr__", "__delitem__",
        "setdefault", "pop", "update", "to_tuple", "__init__",
        "__post_init__", "__repr__", "__eq__", "__reduce__"}
  ELSE {"__getitem__", "pop"}

\* getattr(user_cls, name), by what the attribute is: "function" a function
\* the class or one of its Python bases defines, "dict" a method of dict or
\* OrderedDict (its __objclass__ is one of the two), "object" a slot wrapper
\* of object, "other" any other attribute, "absent" no attribute
\* (AttributeError).
MethodTable(user_cls, name) ==
  IF name \in ClassFunctions(user_cls) THEN "function"
  ELSE IF name \in DictMethodNames THEN "dict"
  ELSE IF name \in ObjectSlotNames THEN "object"
  ELSE IF name \in OtherAttrNames(user_cls) THEN "other"
  ELSE "absent"

\* bound.arguments after apply_defaults(), as raw_items: every field, with
\* the variable bound or the field's default.
CustomBoundItems(fs, bound) ==
  [i \in DOMAIN fs |->
     [k |-> fs[i].name, v |-> bound[i], default |-> fs[i].default]]

\* raw_items of the single mapping argument: its items.
CustomDictItems(items) ==
  [i \in DOMAIN items |-> [k |-> items[i].k, v |-> items[i].v, default |-> ""]]

\* The loop over raw_items: a variable is kept, a literal is wrapped in a
\* ConstantVariable.
CustomWrapped(raw) ==
  [i \in DOMAIN raw |->
     [k |-> raw[i].k,
      v |-> IF raw[i].v # 0 THEN raw[i].v ELSE ConstantRef(raw[i].default)]]

\* cls(items, user_cls, **options)
NewCustom(h, items, user_cls, options) ==
  [Blank EXCEPT !.cls = "CustomizedDictVariable", !.items = items,
                !.user_cls = user_cls,
                !.mutable_local = options.mutable_local,
                !.recursively_contains = AggregateMutables(h, items),
                !.guards = options.guards \cup ItemGuards(h, items)]

CustomFromRaw(st, user_cls, options, raw) ==
  IF \E i \in DOMAIN raw : raw[i].v = 0 /\ ~is_literal(raw[i].default)
  THEN unimplemented(st)
  ELSE ReturnNew(st, NewCustom(st.heap, CustomWrapped(raw), user_cls, options))

\* CustomizedDictVariable.create(user_cls, args, kwargs, options)
CustomizedDict_create(st, user_cls, args, kwargs, options) ==
  IF args = <<>> /\ kwargs = <<>>
  THEN CustomFromRaw(st, user_cls, options, <<>>)
  ELSE IF is_dataclass(user_cls) THEN
    IF ~BindOk(Fields(user_cls), args, kwargs) THEN Raise(st, "TypeError")
    ELSE CustomFromRaw(st, user_cls, options,
           CustomBoundItems(Fields(user_cls),
                            Bound(Fields(user_cls), args, kwargs)))
  ELSE IF /\ Len(args) = 1
          /\ Var(st.heap, args[1]).cls \in DictClasses
          /\ kwargs = <<>>
  THEN CustomFromRaw(st, user_cls, options,
                     CustomDictItems(Var(st.heap, args[1]).items))
  ELSE unimplemented(st)

\* tx.inline_user_function_return(UserFunctionVariable(fn, **options), args,
\* kwargs): the nested trace of fn.  What the function returns is the
\* traced program's; the effect holds the function handed over (ret) and
\* the arguments it is called with (out).
inline_user_function_return(st, user_cls, name, options, args) ==
  Return(st,
         [NoRet EXCEPT !.cls = "UserFunctionVariable",
                       !.value = user_cls \o "." \o name,
                       !.guards = options],
         [i \in DOMAIN args |-> [k |-> "", v |-> args[i]]])

\* The branches of call_method once fn = getattr(self.user_cls, name) is
\* looked up.  The last statement calls unimplemented with two positional
\* arguments (the message and name); unimplemented takes the message alone,
\* so the call itself ends in TypeError.
CustomBranches(st, self, name, args, options, user_cls, fn) ==
  IF fn = "absent" THEN Raise(st, "AttributeError")
  ELSE IF fn = "dict" THEN ConstDict_call_method(st, self, name, args)
  ELSE IF name \in {"__getitem__", "to_tuple", "__setitem__", "__setattr__"}
  THEN inline_user_function_return(st, user_cls, name, options,
                                   <<self>> \o args)
  ELSE Raise(st, "TypeError")

\* CustomizedDictVariable.call_method(tx, name, args, kwargs)
CustomizedDict_call_method(st, self, name, args) ==
  CustomBranches(st, self, name, args,
                 Propagate(st.heap, <<self>> \o args),
                 Var(st.heap, self).user_cls,
                 MethodTable(Var(st.heap, self).user_cls, name))

\* CustomizedDictVariable.reconstruct
CustomizedDict_reconstruct(h, self) == RecordCode(Var(h, self))

(***************************************************************************)
(* Traces of a customized dict: the traced program makes one and the       *)
(* tracer stores it under the name "a"; calls on it follow.                *)
(***************************************************************************)
CustomCreateArgs == {<<>>, <<17>>, <<Ref(1)>>, <<17, 12>>}
CustomCreateKwargs ==
  { <<>>, << [name |-> "b", v |-> 12] >>, << [name |-> "zz", v |-> 12] >> }
CustomNames ==
  {"__getitem__", "__setitem__", "__setattr__", "to_tuple", "get", "keys",
   "__len__", "pop", "update", "foo"}
CustomCallArgs == {<<>>, <<20>>, <<1>>, <<20, 12>>, <<1, 12>>, <<Ref(1)>>}

IsCustom == Var(heap, live["a"]).cls = "CustomizedDictVariable"

CustomCreateOp ==
  \E user_cls \in CustomClasses : \E args \in CustomCreateArgs :
  \E kwargs \in CustomCreateKwargs : \E mutable \in BOOLEAN :
    /\ Len(heap) = Len(InitHeap)
    /\ Step([NoCall EXCEPT !.op = "create", !.user_cls = user_cls,
                           !.args = args, !.kwargs = kwargs],
            Stored(CustomizedDict_create(St, user_cls, args, kwargs,
                     CreateOptions(heap, args, kwargs, mutable))))

\* live["a"].call_method(tx, name, args, {}) on a customized dict
CustomCallOp ==
  \E name \in CustomNames : \E args \in CustomCallArgs :
    /\ IsCustom
    /\ Step([NoCall EXCEPT !.op = name, !.recv = live["a"], !.args = args],
            CustomizedDict_call_method(St, live["a"], name, args))

CustomReconstructOp ==
  /\ IsCustom
  /\ Step([NoCall EXCEPT !.op = "reconstruct", !.recv = live["a"],
                      !.code = CustomizedDict_reconstruct(heap, live["a"])],
          Return(St, NoRet, <<>>))

NextCustom ==
  \/ CustomCreateOp
  \/ CustomCallOp
  \/ CustomReconstructOp

SpecCustom == Init /\ [][NextCustom]_vars

(***************************************************************************)
(* Properties of the calls on dict and defaultdict variables, stated over  *)
(* the call last records.                                                  *)
(***************************************************************************)
\* The receiver of the last call as it was before the call, the key the
\* call's first argument normalizes to, and the mapping variable the call
\* made.
Receiver0 == Var(last.heap0, last.recv)
Key0 == get_key(last.heap0, last.args[1])
Made == Var(heap, last.newvar)

\* The live names after replace_all(old, new) on the table lv.
Substituted(lv, old, new) ==
  \A a \in Aliases : live[a] = IF lv[a] = old THEN new ELSE lv[a]

\* A __setitem__(k, x) call on a receiver with a mutability token and a key
\* that normalizes.
SetItemCase ==
  /\ last.op = "__setitem__"
  /\ Len(last.args) = 2
  /\ Receiver0.mutable_local # 0
  /\ Key0.ok

\* C1: __setitem__(k, x) on a mapping variable that carries a mutability
\* token, with a normalizable key, returns through replace_all a variable
\* that is a new instance, different from the receiver; the receiver's
\* items are what they were before the call, and the new variable's items
\* map the normalized key to x.
C1_CopyOnWrite ==
  SetItemCase =>
    /\ last.outcome = "return"
    /\ last.replaced = 1
    /\ last.ret.src = last.newvar
    /\ last.newvar # last.recv
    /\ last.newvar > NLeaf + Len(last.heap0)
    /\ Substituted(last.live0, last.recv, last.newvar)
    /\ Var(heap, last.recv).items = Receiver0.items
    /\ HasKey(Made.items, Key0.key)
    /\ GetItem(Made.items, Key0.key) = last.args[2]

\* A __setitem__ on a mutable receiver has returned, and the new variable's
\* items differ from the receiver's.
C1_Witness ==
  /\ SetItemCase
  /\ last.outcome = "return"
  /\ last.newvar # 0
  /\ Made.items # Var(heap, last.recv).items

\* The names call_method is called with in the traces.
CallMethodNames ==
  {"__getitem__", "items", "keys", "values", "__len__", "__setitem__",
   "pop", "get", "update", "__contains__", "to_tuple", "__setattr__"}

\* The guards of the receiver and of every argument of the last call.
OperandGuards == Receiver0.guards \cup Propagate(last.heap0, last.args)

\* C2: guard monotonicity.  For every call_method operation that returns,
\* the guards of the returned variable, and of the replacement variable the
\* operation registered, include the guards of the receiver and of every
\* argument.
C2_GuardMonotonicity ==
  (last.op \in CallMethodNames /\ last.outcome = "return") =>
    /\ OperandGuards \subseteq last.ret.guards
    /\ last.newvar # 0 => OperandGuards \subseteq Made.guards

\* A __getitem__ on a defaultdict variable with a factory, of a key that
\* normalizes and is not in the items.
MissCase ==
  /\ last.op = "__getitem__"
  /\ Receiver0.cls = "DefaultDictVariable"
  /\ Receiver0.default_factory # 0
  /\ Key0.ok
  /\ ~HasKey(Receiver0.items, Key0.key)

\* The miss calls the factory once and registers a replacement whose items
\* are the receiver's plus the key mapped to the value it returns.
MissInserts ==
  MissCase =>
    /\ last.outcome = "return"
    /\ last.factory = 1
    /\ last.replaced = 1
    /\ Substituted(last.live0, last.recv, last.newvar)
    /\ Made.items =
         Append(Receiver0.items, [k |-> Key0.key, v |-> last.ret.src])

\* A __getitem__ of the same key on the replacement, right after the miss.
RepeatAfterMiss ==
  /\ MissCase
  /\ last'.op = "__getitem__"
  /\ last'.recv = last.newvar
  /\ last'.args = last.args

\* The repeated call is a hit: no factory call, no replacement, no new
\* variable, and the value variable the miss returned.
RepeatHits ==
  RepeatAfterMiss =>
    /\ last'.outcome = "return"
    /\ last'.factory = 0
    /\ last'.replaced = 0
    /\ last'.newvar = 0
    /\ last'.ret.src = last.ret.src
    /\ heap' = heap
    /\ live' = live

\* C3: default-factory idempotence on repeat miss.  __getitem__(k) on a
\* defaultdict variable with a factory and k not in its items calls the
\* factory once and registers a replacement with k added; __getitem__(k) on
\* the replacement then takes the hit path, calls no factory, registers no
\* replacement and returns the same value variable as the first call.
C3_RepeatMiss == [](MissInserts) /\ [][RepeatHits]_vars

\* A hit on a replacement that a miss made: the value returned is the list
\* the factory synthesized.
C3_Witness ==
  /\ last.op = "__getitem__"
  /\ last.outcome = "return"
  /\ last.factory = 0
  /\ Receiver0.default_factory # 0
  /\ last.recv > NLeaf + Len(InitHeap)
  /\ last.ret.src > NLeaf + Len(InitHeap)
  /\ Var(heap, last.ret.src).cls = "ListVariable"

\* The keys and the values a reconstruct emits, in the order of emission,
\* and whether each key is followed by its value.  A key is emitted as
\* itself or, for a global-ref key, as the name of its global.
LoadedAs(k) == IF is_valid_global_ref_key(k) THEN global_key_name(k) ELSE k
KeysAsLoaded(items) == [i \in DOMAIN items |-> LoadedAs(items[i].k)]
IsKeyInstr(i) == i.op \in {"LOAD_CONST", "LOAD_GLOBAL"}
IsPairInstr(i) == IsKeyInstr(i) \/ i.op = "VALUE"
CodeKeys(code) == Keys([j \in DOMAIN SelectSeq(code, IsKeyInstr) |->
                          [k |-> SelectSeq(code, IsKeyInstr)[j].key, v |-> 0]])
CodeValues(code) == Values(SelectSeq(code, LAMBDA i : i.op = "VALUE"))
Alternates(code) ==
  \A j \in DOMAIN SelectSeq(code, IsPairInstr) :
     (SelectSeq(code, IsPairInstr)[j].op = "VALUE") <=> (j % 2 = 0)

\* Every projection of a mapping variable follows the order of its items.
ProjectionsInOrder ==
  /\ last.op \in {"items", "keys", "values", "unpack_var_sequence"}
       => last.outcome = "return"
  /\ last.op \in {"items", "keys", "unpack_var_sequence"}
       => Keys(last.out) = Keys(Receiver0.items)
  /\ last.op \in {"items", "values"}
       => Values(last.out) = Values(Receiver0.items)
  /\ last.op = "reconstruct"
       => /\ CodeKeys(last.code) = KeysAsLoaded(Receiver0.items)
          /\ CodeValues(last.code) = Values(Receiver0.items)
          /\ Alternates(last.code)

\* The keys of the mapping other that the items do not hold, in other's
\* order.
NewKeys(items, other) ==
  SelectSeq(Keys(other), LAMBDA k : ~HasKey(items, k))

\* Every insertion appends, every overwrite keeps the place, every pop
\* leaves the rest in place.
MutationsKeepOrder ==
  /\ (last.op = "__setitem__" /\ last.newvar # 0)
       => Keys(Made.items) =
            IF HasKey(Receiver0.items, Key0.key) THEN Keys(Receiver0.items)
            ELSE Append(Keys(Receiver0.items), Key0.key)
  /\ (last.op = "pop" /\ last.newvar # 0)
       => Keys(Made.items) =
            SelectSeq(Keys(Receiver0.items), LAMBDA k : k # Key0.key)
  /\ (last.op = "update" /\ last.newvar # 0)
       => Keys(Made.items) =
            Keys(Receiver0.items)
              \o NewKeys(Receiver0.items, Var(last.heap0, last.args[1]).items)
  /\ (MissCase /\ last.newvar # 0)
       => Keys(Made.items) = Append(Keys(Receiver0.items), Key0.key)

\* C4: order preservation.  A new key is appended last, an overwritten key
\* keeps its position, a pop removes without reordering the rest, and after
\* any sequence of such changes the keys of items(), keys() and
\* unpack_var_sequence, the values of values() and the key/value pairs
\* reconstruct emits are in the order of the variable's items.
C4_OrderPreservation == ProjectionsInOrder /\ MutationsKeepOrder

\* A reconstruct of a variable that an insertion and a pop have made: it
\* emits the keys y and T1 in this order.
C4_Witness ==
  /\ last.op = "reconstruct"
  /\ last.recv > NLeaf + Len(InitHeap) + 1
  /\ CodeKeys(last.code) = <<"y", global_key_name("T1")>>

\* An update call with a mapping variable on a receiver with a mutability
\* token.
UpdateCase ==
  /\ last.op = "update"
  /\ Receiver0.mutable_local # 0
  /\ Var(last.heap0, last.args[1]).cls \in DictClasses

\* The receiver's keys in their order, each with other's value when other
\* holds the key, then the keys only other holds, in other's order.
Merged(items, other) ==
  [i \in DOMAIN items |->
     [k |-> items[i].k,
      v |-> IF HasKey(other, items[i].k) THEN GetItem(other, items[i].k)
            ELSE items[i].v]]
  \o SelectSeq(other, LAMBDA e : ~HasKey(items, e.k))

\* C5: update conflict.  update(other) on a mutable mapping variable makes
\* a new variable whose items are the receiver's keys in their order, with
\* other's value where other holds the key too, followed by the keys only
\* other holds in other's order; the items of the receiver and of other
\* are unchanged.
C5_UpdateConflict ==
  UpdateCase =>
    /\ last.outcome = "return"
    /\ last.newvar > NLeaf + Len(last.heap0)
    /\ Made.items = Merged(Receiver0.items, Var(last.heap0, last.args[1]).items)
    /\ Var(heap, last.recv).items = Receiver0.items
    /\ Var(heap, last.args[1]).items = Var(last.heap0, last.args[1]).items

\* {x: 1, y: 2}.update({y: 3, z: 4}) has made {x: 1, y: 3, z: 4}.
C5_Witness ==
  /\ UpdateCase
  /\ Receiver0.items = << [k |-> "x", v |-> 8], [k |-> "y", v |-> 9] >>
  /\ Var(last.heap0, last.args[1]).items
       = << [k |-> "y", v |-> 10], [k |-> "z", v |-> 11] >>
  /\ Made.items
       = << [k |-> "x", v |-> 8], [k |-> "y", v |-> 10], [k |-> "z", v |-> 11] >>

\* A pop call with a default, of a key that normalizes and is not in the
\* receiver's items.
PopDefaultCase ==
  /\ last.op = "pop"
  /\ Len(last.args) = 2
  /\ Key0.ok
  /\ ~HasKey(Receiver0.items, Key0.key)

\* C6: pop missing with default.  pop(k, default) of a key that is not in
\* the items returns the default, makes no mapping variable, calls no
\* replace_all and leaves the items and the live names as they were.
C6_PopMissingDefault ==
  PopDefaultCase =>
    /\ last.outcome = "return"
    /\ last.ret.src = last.args[2]
    /\ last.newvar = 0
    /\ last.replaced = 0
    /\ heap = last.heap0
    /\ live = last.live0

\* {x: 1, y: 2}.pop("z", 7) has returned 7.
C6_Witness ==
  /\ PopDefaultCase
  /\ Key0.key = "z"
  /\ last.outcome = "return"
  /\ Var(heap, last.ret.src).value = "7"

\* A __contains__, get or __getitem__ call on the sys.modules variable.
SysCase == last.op \in SysNames /\ last.recv = 16

\* C7: membership guard.  Each of __contains__(k), get(k[, default]) and
\* __getitem__(k) on the sys.modules variable completes with exactly one
\* membership guard on its result, of presence when k is in sys.modules
\* and of absence when it is not, and __contains__ returns True in the
\* first case and False in the second.  (__getitem__ of a key that is not
\* in sys.modules has no result to guard: it may end in KeyError.)
C7_MembershipGuard ==
  SysCase =>
    \/ /\ last.outcome = "return"
       /\ DictContainsGuard(Key0.key, ~(Key0.key \in sys_modules))
            \in last.ret.guards
       /\ DictContainsGuard(Key0.key, Key0.key \in sys_modules)
            \notin last.ret.guards
       /\ last.op = "__contains__"
            => last.ret.value
                 = (IF Key0.key \in sys_modules THEN "True" ELSE "False")
    \/ /\ last.op = "__getitem__"
       /\ Key0.key \notin sys_modules
       /\ last.outcome = "KeyError"

\* C8: normalizer consistency.  For every variable x, is_valid_key(x) is
\* true exactly when get_key(tx, x) returns a key.
C8_NormalizerConsistency ==
  last.op = "key" => ((last.ret.value = "True") <=> (last.outcome = "return"))

(***************************************************************************)
(* Properties of the calls that make and read a record variable.           *)
(***************************************************************************)
\* Whether the last call (a create) supplied the i-th field of the schema,
\* and the variable it supplied.
SuppliedAt(fs, i) ==
  i <= Len(last.args) \/ fs[i].name \in KwNames(last.kwargs)

SuppliedValue(fs, i) ==
  IF i <= Len(last.args) THEN last.args[i]
  ELSE KwRef(last.kwargs, fs[i].name)

\* The supplied fields with their values, in schema order.
SuppliedItems(fs) ==
  SelectSeq([i \in DOMAIN fs |->
               [k |-> fs[i].name,
                v |-> IF SuppliedAt(fs, i) THEN SuppliedValue(fs, i) ELSE 0]],
            LAMBDA e : e.v # 0)

\* A create call whose arguments bind to the schema and whose unsupplied
\* fields all default to None.
CreateCase ==
  /\ last.op = "create"
  /\ BindOk(Fields(last.user_cls), last.args, last.kwargs)
  /\ \A i \in DOMAIN Fields(last.user_cls) :
        SuppliedAt(Fields(last.user_cls), i)
          \/ Fields(last.user_cls)[i].default = "None"

\* Some fields are supplied and some are left to the None default.
PartlySupplied(fs) ==
  /\ \E i \in DOMAIN fs : SuppliedAt(fs, i)
  /\ \E i \in DOMAIN fs : ~SuppliedAt(fs, i)

\* The record create returned holds exactly the supplied fields.
ReturnsSupplied(fs) ==
  /\ last.outcome = "return"
  /\ Made.cls = "DataClassVariable"
  /\ Made.user_cls = last.user_cls
  /\ Made.items = SuppliedItems(fs)

\* C9 as stated: under include_none = False, create for a schema whose
\* fields bind partly to supplied values and partly to the None default
\* returns a record whose items are exactly the supplied fields in schema
\* order; schema {a, b, c} constructed from {a: 1} gives items with the
\* key a only.
C9_ExcludeAbsent ==
  (CreateCase /\ PartlySupplied(Fields(last.user_cls)))
    => ReturnsSupplied(Fields(last.user_cls))

\* A var_getattr call on a record variable.
AttrCase == last.op = "var_getattr"

\* Whether the name is a schema field with a literal default.
HasLiteralDefault(fs, name) ==
  /\ name \in FieldNames(fs)
  /\ is_literal(FieldDefault(fs, name))

\* C10: var_getattr(name) returns the child variable at name when name is
\* a bound field; otherwise, with the exclude-absent policy and a schema
\* field name that has a literal default, it returns that default; in every
\* other case it ends as the generic attribute lookup of the base class
\* ends.
C10_VarGetattr ==
  AttrCase =>
    IF HasKey(Receiver0.items, last.attr)
    THEN /\ last.outcome = "return"
         /\ last.ret.src = GetItem(Receiver0.items, last.attr)
    ELSE IF ~include_none
            /\ HasLiteralDefault(Fields(Receiver0.user_cls), last.attr)
    THEN /\ last.outcome = "return"
         /\ last.ret.cls = "ConstantVariable"
         /\ last.ret.value = FieldDefault(Fields(Receiver0.user_cls), last.attr)
    ELSE /\ last.outcome
              = base_var_getattr(St, last.recv, last.attr).outcome
         /\ last.ret = NoRet

(***************************************************************************)
(* Receivers without a mutability token.                                   *)
(***************************************************************************)
\* The last call was call_method on a dict or defaultdict variable that had
\* no mutability token when the call began.
ImmutableReceiver ==
  /\ last.op \in CallMethodNames
  /\ last.recv > NLeaf
  /\ Receiver0.cls \in {"ConstDictVariable", "DefaultDictVariable"}
  /\ Receiver0.mutable_local = 0

\* pop of a key the receiver holds.
PopPresentCall ==
  /\ last.op = "pop"
  /\ KeyIn(last.heap0, last.recv, last.args[1])

\* update with a mapping variable.
UpdateMappingCall ==
  /\ last.op = "update"
  /\ Var(last.heap0, last.args[1]).cls \in DictClasses

\* __setitem__(k, x) with a key that normalizes.
SetItemKeyCall ==
  /\ last.op = "__setitem__"
  /\ Len(last.args) = 2
  /\ Key0.ok

\* The call ended in the unsupported signal, did not call replace_all and
\* made no variable.
Rejected ==
  /\ last.outcome = "Unsupported"
  /\ last.replaced = 0
  /\ last.newvar = 0
  /\ Len(heap) = Len(last.heap0)
  /\ live = last.live0

\* C11: on a mapping variable without a mutability token, each mutating
\* call (__setitem__ with a normalizable key, pop of a present key, update
\* with a mapping argument) raises the unsupported signal, registers no
\* replacement and produces no new variable.
C11_ImmutableRejects ==
  (ImmutableReceiver /\ (SetItemKeyCall \/ PopPresentCall \/ UpdateMappingCall))
    => Rejected

\* What __setitem__(k, x) does on a receiver without a token: the receiver
\* is given a token, and the call returns through replace_all a new
\* variable whose items map the key to x.
DemotedAndReplaced ==
  /\ last.outcome = "return"
  /\ last.replaced = 1
  /\ last.newvar > NLeaf + Len(last.heap0)
  /\ Substituted(last.live0, last.recv, last.newvar)
  /\ Var(heap, last.recv).mutable_local # 0
  /\ Var(heap, last.recv).items = Receiver0.items
  /\ HasKey(Made.items, Key0.key)
  /\ GetItem(Made.items, Key0.key) = last.args[2]

\* C11, amended: on a mapping variable without a mutability token, pop of
\* a present key and update with a mapping argument raise the unsupported
\* signal, register no replacement and produce no new variable;
\* __setitem__(k, x) with a normalizable key gives the receiver a token and
\* returns, through replace_all, a new variable that holds k -> x.
C11_ImmutableRejectsAmended ==
  /\ (ImmutableReceiver /\ (PopPresentCall \/ UpdateMappingCall)) => Rejected
  /\ (ImmutableReceiver /\ SetItemKeyCall) => DemotedAndReplaced

\* A pop of a present key on a receiver without a token was rejected.
C11_Witness ==
  /\ ImmutableReceiver
  /\ PopPresentCall
  /\ last.outcome = "Unsupported"

(***************************************************************************)
(* Variables after their creation.                                         *)
(***************************************************************************)
\* C12: a variable is never changed after its creation: over call_method,
\* var_getattr and reconstruct, every variable that existed before the call
\* has after it the fields (items, mutability token, guards, the set of
\* contained mutables, default factory) it had before.
C12_NeverMutated ==
  \A i \in 1..Len(last.heap0) : heap[i] = last.heap0[i]

(***************************************************************************)
(* Calls that end in an error.                                             *)
(***************************************************************************)
\* The last call was call_method and ended in an error signal.
EndedInError ==
  /\ last.op \in CallMethodNames
  /\ last.outcome # "return"

\* C13: a call of call_method that ends in an error signal (unsupported,
\* key error, failed assertion, an error of the factory) commits nothing:
\* the live table, the weak-reference registry and every field of every
\* variable, the receiver's among them, are as before the call.
C13_NoPartialCommit ==
  EndedInError =>
    /\ heap = last.heap0
    /\ live = last.live0
    /\ weak = last.weak0

(***************************************************************************)
(* create with arguments that do not fit the schema.                       *)
(***************************************************************************)
\* The arguments of the last call (a create) do not exactly cover the
\* schema fs: more positionals than fields, a keyword that names no field
\* or a field a positional has bound, or a field without default that no
\* argument binds.
SchemaMismatch(fs) ==
  \/ Len(last.args) > Len(fs)
  \/ \E n \in KwNames(last.kwargs) :
        \A i \in DOMAIN fs : fs[i].name = n => i <= Len(last.args)
  \/ \E i \in DOMAIN fs : ~SuppliedAt(fs, i) /\ fs[i].default = "MISSING"

\* A field is left to a default that is a plain value other than None,
\* which the exclude-absent policy has no entry for.
Unrepresentable(fs) ==
  \E i \in DOMAIN fs :
     ~SuppliedAt(fs, i) /\ fs[i].default \notin {"MISSING", "None"}

\* C14: DataClassVariable.create with arguments that do not exactly cover
\* the schema (a missing field, an extra keyword, too many positionals), or
\* with a value that is no variable and that the policy cannot represent,
\* ends in the unsupported signal and returns no record variable.
C14_CreateMismatch ==
  (/\ last.op = "create"
   /\ SchemaMismatch(Fields(last.user_cls))
        \/ Unrepresentable(Fields(last.user_cls)))
    => (last.outcome = "Unsupported" /\ last.newvar = 0)

(***************************************************************************)
(* Dispatch of the calls on a customized dict.                             *)
(***************************************************************************)
\* The last call was call_method on a customized dict variable.
CustomCall ==
  /\ last.op \in CustomNames
  /\ last.recv > NLeaf
  /\ Receiver0.cls = "CustomizedDictVariable"

\* The tracer's state before the last call.
St0 == [heap |-> last.heap0, live |-> last.live0, weak |-> last.weak0]

\* The last call ended as the effect eff says.
EndedAs(eff) ==
  /\ heap = eff.heap
  /\ live = eff.live
  /\ weak = eff.weak
  /\ last.outcome = eff.outcome
  /\ last.ret = eff.ret
  /\ last.out = eff.out
  /\ last.replaced = eff.replaced
  /\ last.newvar = eff.newvar

\* The user's function was inlined with the receiver put before the
\* arguments of the call.
InlinedWithSelf ==
  /\ last.outcome = "return"
  /\ last.ret.cls = "UserFunctionVariable"
  /\ last.ret.value = Receiver0.user_cls \o "." \o last.op
  /\ [i \in DOMAIN last.out |-> last.out[i].v] = <<last.recv>> \o last.args

OverrideHooks == {"__getitem__", "to_tuple", "__setitem__", "__setattr__"}

\* C15: call_method(name) on a customized dict: when the class's method for
\* name is the unmodified dict/OrderedDict implementation, the result is
\* the base mapping behaviour for name; otherwise, when name is one of
\* __getitem__, to_tuple, __setitem__, __setattr__, the user's override is
\* inlined with the variable put before the arguments; for every other
\* name, one the class does not define among them, the result is the
\* unsupported signal.
C15_CustomDispatch ==
  CustomCall =>
    IF MethodTable(Receiver0.user_cls, last.op) = "dict"
    THEN EndedAs(ConstDict_call_method(St0, last.recv, last.op, last.args))
    ELSE IF last.op \in OverrideHooks THEN InlinedWithSelf
    ELSE last.outcome = "Unsupported"

(***************************************************************************)
(* Membership and get.                                                     *)
(***************************************************************************)
\* The last call was call_method(name) on a dict or defaultdict variable.
DictCall(name) ==
  /\ last.op = name
  /\ last.recv > NLeaf
  /\ Receiver0.cls \in {"ConstDictVariable", "DefaultDictVariable"}

\* The call returned without making or replacing a variable.
ReadOnly ==
  /\ last.replaced = 0
  /\ last.newvar = 0
  /\ heap = last.heap0
  /\ live = last.live0

\* C16: __contains__(k) with a key that is_valid_key accepts returns the
\* boolean constant that says whether the normalized key is in the items,
\* and registers no replacement; with a key that does not normalize it
\* raises the unsupported signal.
C16_Contains ==
  DictCall("__contains__") =>
    IF is_valid_key(last.heap0, last.args[1])
    THEN /\ last.outcome = "return"
         /\ last.ret.cls = "ConstantVariable"
         /\ last.ret.value = (IF HasKey(Receiver0.items, Key0.key)
                              THEN "True" ELSE "False")
         /\ ReadOnly
    ELSE last.outcome = "Unsupported"

\* The variable x as call_method returns it: with the guards of the
\* receiver and the arguments added.
ReturnedFrom(x) ==
  add_options(last.heap0, x, Propagate(last.heap0, <<last.recv>> \o last.args))

\* The last call returned the variable x.
Returned(x) ==
  /\ last.outcome = "return"
  /\ last.ret = ReturnedFrom(x)

\* C17: get(k) and get(k, default) return the child at the normalized key
\* when it is present; get(k, default) returns default when it is absent;
\* get(k) with the key absent raises the unsupported signal.  In each case
\* nothing is replaced and the items stay as they are, with or without a
\* mutability token on the receiver.
C17_Get ==
  (DictCall("get") /\ Key0.ok) =>
    /\ ReadOnly
    /\ IF HasKey(Receiver0.items, Key0.key)
       THEN Returned(GetItem(Receiver0.items, Key0.key))
       ELSE IF Len(last.args) = 2 THEN Returned(last.args[2])
       ELSE last.outcome = "Unsupported"

\* A get(k, default) of a present key on a receiver without a token has
\* returned the child, which is not the default.
C17_Witness ==
  /\ DictCall("get")
  /\ Key0.ok
  /\ Len(last.args) = 2
  /\ Receiver0.mutable_local = 0
  /\ HasKey(Receiver0.items, Key0.key)
  /\ GetItem(Receiver0.items, Key0.key) # Receiver0.items[1].v
  /\ last.outcome = "return"

(***************************************************************************)
(* The instructions of reconstruct.                                        *)
(***************************************************************************)
\* Whether the reconstructed variable is declared as OrderedDict, the
\* number of instructions before the first key, and the number of
\* global-ref keys among the first n items.
Ordered == Receiver0.user_cls = "OrderedDict"
PrefixLen == IF Ordered THEN 2 ELSE 0
GlobalKeys(items, n) ==
  Cardinality({j \in 1..n : is_valid_global_ref_key(items[j].k)})

\* Where the load of the i-th key stands in the code.
KeyPos(items, i) == PrefixLen + 2 * (i - 1) + GlobalKeys(items, i - 1) + 1

\* Where BUILD_MAP stands.
BuildPos(items) == PrefixLen + 2 * Len(items) + GlobalKeys(items, Len(items)) + 1

\* At p stands the load of the key k, and right after it the value v.
KeyThenValue(code, p, k, v) ==
  IF is_valid_global_ref_key(k)
  THEN /\ code[p] = Instr("LOAD_GLOBAL", global_key_name(k), 0, 0)
       /\ code[p + 1] = Instr("CALL_FUNCTION", "", 0, 0)
       /\ code[p + 2] = Instr("VALUE", "", 0, v)
  ELSE /\ code[p] = Instr("LOAD_CONST", k, 0, 0)
       /\ code[p + 1] = Instr("VALUE", "", 0, v)

ReconstructShape(code, items) ==
  /\ Len(code) = BuildPos(items) + (IF Ordered THEN 1 ELSE 0)
  /\ \A i \in DOMAIN items :
        KeyThenValue(code, KeyPos(items, i), items[i].k, items[i].v)
  /\ code[BuildPos(items)] = Instr("BUILD_MAP", "", Len(items), 0)
  /\ Ordered =>
       /\ code[1] = Instr("LOAD_PYTHON_MODULE", "collections", 0, 0)
       /\ code[2] = Instr("LOAD_ATTR", "OrderedDict", 0, 0)
       /\ code[Len(code)] = Instr("CALL_FUNCTION", "", 1, 0)
  /\ ~Ordered =>
       \A j \in DOMAIN code :
          code[j].op \notin {"LOAD_PYTHON_MODULE", "LOAD_ATTR"}

\* C18: reconstruct of a mapping variable emits, for each key of the items
\* in insertion order, one key load (a constant load for a literal key, a
\* load of the global global_key_name(key) and a call without arguments for
\* a global-ref key) with the value's instructions right after it, and ends
\* with a build-mapping instruction of the size of the items; the load of
\* the module and the OrderedDict attribute before, and the call with one
\* argument after, are there exactly when the declared kind is OrderedDict.
C18_ReconstructShape ==
  DictCall("reconstruct") => ReconstructShape(last.code, Receiver0.items)

\* A reconstruct of an OrderedDict variable that holds a literal key and a
\* global-ref key.
C18_Witness ==
  /\ DictCall("reconstruct")
  /\ Ordered
  /\ \E i \in DOMAIN Receiver0.items :
        is_valid_global_ref_key(Receiver0.items[i].k)
  /\ \E i \in DOMAIN Receiver0.items :
        ~is_valid_global_ref_key(Receiver0.items[i].k)

(***************************************************************************)
(* The replacement protocol.                                               *)
(***************************************************************************)
\* The keys of two item sequences, and whether they agree on every key
\* but k.
KeySet(items) == {items[i].k : i \in DOMAIN items}
SameBut(new, old, k) ==
  \A key \in (KeySet(new) \cup KeySet(old)) \ {k} :
     /\ HasKey(new, key)
     /\ HasKey(old, key)
     /\ GetItem(new, key) = GetItem(old, key)

\* The calls that yield a mapping with other items, each with the items
\* it yields from the receiver's.
SetItemYields ==
  /\ DictCall("__setitem__") /\ Len(last.args) = 2 /\ Key0.ok
  /\ HasKey(Made.items, Key0.key)
  /\ GetItem(Made.items, Key0.key) = last.args[2]
  /\ SameBut(Made.items, Receiver0.items, Key0.key)

PopYields ==
  /\ DictCall("pop") /\ Receiver0.mutable_local # 0
  /\ KeyIn(last.heap0, last.recv, last.args[1])
  /\ ~HasKey(Made.items, Key0.key)
  /\ SameBut(Made.items, Receiver0.items, Key0.key)

UpdateYields ==
  /\ DictCall("update") /\ UpdateCase
  /\ Made.items = Merged(Receiver0.items, Var(last.heap0, last.args[1]).items)

MissYields ==
  /\ DictCall("__getitem__") /\ MissCase
  /\ HasKey(Made.items, Key0.key)
  /\ GetItem(Made.items, Key0.key) = last.ret.src
  /\ SameBut(Made.items, Receiver0.items, Key0.key)

ItemChanging ==
  \/ DictCall("__setitem__") /\ Len(last.args) = 2 /\ Key0.ok
  \/ DictCall("pop") /\ Receiver0.mutable_local # 0
       /\ KeyIn(last.heap0, last.recv, last.args[1])
  \/ DictCall("update") /\ UpdateCase
  \/ DictCall("__getitem__") /\ MissCase

\* The calls that only read.
Reading ==
  \/ DictCall("__getitem__") /\ Key0.ok /\ HasKey(Receiver0.items, Key0.key)
  \/ DictCall("items")
  \/ DictCall("keys")
  \/ DictCall("values")
  \/ DictCall("__len__")
  \/ DictCall("__contains__")
  \/ DictCall("get")
  \/ DictCall("pop") /\ PopDefaultCase

\* replace_all was called once, with the receiver and a variable made by
\* the call, and every live name of the receiver now holds that variable.
ReplacedOnce ==
  /\ last.outcome = "return"
  /\ last.replaced = 1
  /\ last.newvar # last.recv
  /\ last.newvar > NLeaf + Len(last.heap0)
  /\ Substituted(last.live0, last.recv, last.newvar)
  /\ live["a"] = last.newvar

ProtocolKept ==
  /\ ItemChanging =>
       /\ ReplacedOnce
       /\ SetItemYields \/ PopYields \/ UpdateYields \/ MissYields
  /\ Reading =>
       /\ last.replaced = 0
       /\ live = last.live0
       /\ heap = last.heap0

\* Each call is made on the variable the name "a" holds, which after a
\* call that made a variable is that variable.
AppliedToCurrent ==
  (last'.recv > NLeaf /\ last'.op \in CallMethodNames)
    => /\ last'.recv = live["a"]
       /\ last.newvar # 0 => last'.recv = last.newvar

\* C19: every call that yields a mapping with other items (__setitem__, pop
\* of a present key, update, a default miss) calls replace_all(receiver,
\* new) exactly once with a new variable that is not the receiver; every
\* call that only reads (__getitem__ hit, items, keys, values, __len__,
\* __contains__, get, pop of an absent key with a default) never calls it;
\* so over any sequence of calls, each made on the current replacement, the
\* live table maps the name to the variable that holds the accumulated
\* items.
C19_ReplacementProtocol == [](ProtocolKept) /\ [][AppliedToCurrent]_vars

\* Two item-changing calls in a row: the second was made on the variable
\* the first made, and the name holds the variable the second made.
C19_Witness ==
  /\ ItemChanging
  /\ last.recv > NLeaf + Len(InitHeap)
  /\ last.newvar > last.recv
  /\ live["a"] = last.newvar
  /\ Len(Made.items) > Len(InitHeap[1].items)

(***************************************************************************)
(* The weak-reference registry.                                            *)
(***************************************************************************)
\* The last call inserted the key Key0: a __setitem__(k, x), on a receiver
\* with or without a mutability token, or a default-factory miss.
Inserting ==
  \/ DictCall("__setitem__") /\ Len(last.args) = 2 /\ Key0.ok
  \/ DictCall("__getitem__") /\ MissCase

\* Every global-ref key of a mapping variable has its name registered.
KeysRegistered(v) ==
  \A i \in DOMAIN v.items :
     is_valid_global_ref_key(v.items[i].k)
       => global_key_name(v.items[i].k) \in weak

\* Every global a reconstruct loads is registered.
LoadsResolve(code) ==
  \A j \in DOMAIN code :
     code[j].op = "LOAD_GLOBAL" => code[j].key \in weak

\* C20: whenever __setitem__ (on a receiver with or without a mutability
\* token) or a default-factory miss inserts a global-ref key k, the weak
\* reference named global_key_name(k) is registered during that call; so
\* every global-ref key of a variable's items is registered by the time a
\* reconstruct loads its global; inserting a literal key registers nothing.
C20_WeakRefRegistered ==
  /\ Inserting =>
       weak = IF is_valid_global_ref_key(Key0.key)
              THEN last.weak0 \cup {global_key_name(Key0.key)}
              ELSE last.weak0
  /\ \A i \in DOMAIN heap : KeysRegistered(heap[i])
  /\ \A a \in Aliases : KeysRegistered(Var(heap, live[a]))
  /\ DictCall("reconstruct") => LoadsResolve(last.code)

\* A reconstruct of an OrderedDict variable into which a __setitem__ has
\* inserted a tensor key: it loads the registered global.
C20_Witness ==
  /\ DictCall("reconstruct")
  /\ Receiver0.user_cls = "OrderedDict"
  /\ \E j \in DOMAIN last.code :
        /\ last.code[j].op = "LOAD_GLOBAL"
        /\ last.code[j].key = global_key_name("T1")
        /\ last.code[j].key \in weak

(***************************************************************************)
(* recursively_contains of the variables the calls make.                   *)
(***************************************************************************)
\* What the value x brings into a mapping that holds it: what it contains
\* and, when it has one, its own mutability token.
Contribution(h, x) ==
  Var(h, x).recursively_contains
    \cup (IF Var(h, x).mutable_local # 0 THEN {Var(h, x).mutable_local}
          ELSE {})

\* The values the last call newly placed into the mapping: the inserted
\* value, the value the factory made, the values of update's argument.
NewlyPlaced ==
  IF DictCall("__setitem__") THEN {last.args[2]}
  ELSE IF DictCall("__getitem__") THEN {last.ret.src}
  ELSE IF DictCall("update")
  THEN {Var(last.heap0, last.args[1]).items[i].v :
          i \in DOMAIN Var(last.heap0, last.args[1]).items}
  ELSE {}

\* The values of the receiver that are still in the new variable's items.
StillPresent ==
  {Receiver0.items[i].v : i \in DOMAIN Receiver0.items}
    \cap {Made.items[i].v : i \in DOMAIN Made.items}

\* C21: for every mutating call (__setitem__, update, pop of a present key,
\* a default-factory insertion) recursively_contains of the variable made
\* contains what the receiver's values still present bring in, and, for
\* each value newly placed into the mapping, what that value contains and
\* the value's own mutability token when it has one.
C21_AggregateContains ==
  (ItemChanging /\ last.newvar # 0) =>
    /\ \A x \in StillPresent :
          Contribution(heap, x) \subseteq Made.recursively_contains
    /\ \A x \in NewlyPlaced :
          Contribution(heap, x) \subseteq Made.recursively_contains

\* An update has taken a value with a mutability token from its argument
\* into a receiver that did not contain it.
C21_Witness ==
  /\ DictCall("update")
  /\ UpdateCase
  /\ last.newvar # 0
  /\ \E x \in NewlyPlaced :
        /\ Var(heap, x).mutable_local # 0
        /\ Var(heap, x).mutable_local \notin Receiver0.recursively_contains
        /\ Var(heap, x).mutable_local \in Made.recursively_contains

(***************************************************************************)
(* The single-field restriction of create.                                 *)
(***************************************************************************)
\* The items the last call (a create) constructs hold exactly one field.
SingleField(fs) == Len(SuppliedItems(fs)) = 1

\* The value of that field is a tensor variable.
SingleTensor(fs) ==
  Var(last.heap0, SuppliedItems(fs)[1].v).cls = "TensorVariable"

SingleFieldRule(fs) ==
  IF SingleField(fs) /\ ~SingleTensor(fs)
  THEN last.outcome = "Unsupported" /\ last.newvar = 0
  ELSE Len(SuppliedItems(fs)) >= 1 => ReturnsSupplied(fs)

\* C22: DataClassVariable.create raises the unsupported signal whenever the
\* items it constructs hold exactly one field whose value is no tensor
\* variable, whichever field of the schema (the first or a later one) is
\* the one bound; it returns a record variable when the single bound value
\* is a tensor variable or when two or more fields are bound.
C22_SingleField ==
  CreateCase => SingleFieldRule(Fields(last.user_cls))

(***************************************************************************)
(* Whether a defaultdict variable is a constant.                           *)
(***************************************************************************)
\* The factory df is one of the constructors list, tuple, dict: a
\* BuiltinVariable of one of them, as is_supported_arg tells them.
AllowListed(h, df) ==
  /\ df # 0
  /\ Var(h, df).cls = "BuiltinVariable"
  /\ Var(h, df).fn \in {"list", "tuple", "dict"}

\* The answer of the base mapping variable for the receiver.
BaseAnswer ==
  IF base_is_python_constant(last.heap0, last.recv) THEN "True" ELSE "False"

\* C23: is_python_constant of a DefaultDictVariable is false when it holds
\* no items, unless its factory is one of the allow-listed constructors
\* (list, tuple, dict); when the factory is allow-listed and the items are
\* empty, or when there are items, the answer is the base mapping
\* variable's answer.
C23_ConstantEligibility ==
  (last.op = "is_python_constant" /\ Receiver0.cls = "DefaultDictVariable")
    => last.ret.value =
         IF /\ Receiver0.items = <<>>
            /\ ~AllowListed(last.heap0, Receiver0.default_factory)
         THEN "False"
         ELSE BaseAnswer

(***************************************************************************)
(* The instructions of a record's reconstruct.                             *)
(***************************************************************************)
\* The last call was reconstruct on a record variable.
RecordReconstruct ==
  /\ last.op = "reconstruct"
  /\ last.recv > NLeaf
  /\ Receiver0.cls \in {"DataClassVariable", "CustomizedDictVariable"}

\* The names of the schema fs that the items hold, in schema order.
SchemaOrder(fs, items) ==
  SelectSeq([i \in DOMAIN fs |-> fs[i].name], LAMBDA n : HasKey(items, n))

\* The code loads the class, then materializes the values of the names in
\* their order, then calls with as many arguments as values, bound to the
\* names in that order; it builds no mapping.
CallsWith(code, cls, names, items) ==
  /\ Len(code) = Len(names) + 2
  /\ code[1] = Instr("LOAD_CONST", cls, 0, 0)
  /\ \A i \in DOMAIN names :
        code[i + 1] = Instr("VALUE", "", 0, GetItem(items, names[i]))
  /\ code[Len(code)].op = "CALL_FUNCTION_KW"
  /\ code[Len(code)].n = Len(names)
  /\ code[Len(code)].names = names
  /\ \A j \in DOMAIN code : code[j].op # "BUILD_MAP"

\* C24: reconstruct of a record variable emits one constant load of the
\* record class, then one value per field in schema order, then one
\* keyword call whose argument count is the number of values and whose
\* names are the field names in the order of the values; it emits no
\* build-mapping instruction, also after __setitem__ or __setattr__ has
\* added or overwritten entries.
C24_RecordReconstruct ==
  RecordReconstruct =>
    /\ Len(Receiver0.items) =
         Len(SchemaOrder(Fields(Receiver0.user_cls), Receiver0.items))
    /\ CallsWith(last.code, Receiver0.user_cls,
                 SchemaOrder(Fields(Receiver0.user_cls), Receiver0.items),
                 Receiver0.items)

\* The record is of a dataclass and as create or wrap made it: no call has
\* replaced it.
AsMade ==
  /\ last.recv = Ref(Len(InitHeap) + 1)
  /\ is_dataclass(Receiver0.user_cls)

\* C24, amended: reconstruct of a record variable emits one constant load
\* of the record class, then one value per entry in the order of the
\* variable's items, then one keyword call whose argument count is the
\* number of values and whose names are the entries' names in the order of
\* the values, and no build-mapping instruction.  The order of the items
\* is schema order for a record of a dataclass as create or wrap made it;
\* an entry that __setitem__ or __setattr__ adds comes last, whatever its
\* place in the schema, and an overwritten entry keeps its place.
C24_RecordReconstructAmended ==
  RecordReconstruct =>
    /\ CallsWith(last.code, Receiver0.user_cls, Keys(Receiver0.items),
                 Receiver0.items)
    /\ AsMade => Keys(Receiver0.items) =
                   SchemaOrder(Fields(Receiver0.user_cls), Receiver0.items)

\* A reconstruct of a record into which __setattr__ has added the first
\* field of the schema: its value and name come last.
C24_Witness ==
  /\ RecordReconstruct
  /\ ~AsMade
  /\ Len(Receiver0.items) > 1
  /\ Receiver0.items[Len(Receiver0.items)].k = Fields(Receiver0.user_cls)[1].name
  /\ last.code[Len(last.code)].names = Keys(Receiver0.items)

=============================================================================
